---- MODULE Spec2Model ----
(***************************************************************************)
(* Model of the Level Zero command-buffer ("command graph") engine of      *)
(* source/adapters/level_zero/command_buffer.cpp: recording into the       *)
(* compute / copy / reset-events command lists, sync points, finalize,     *)
(* enqueue with per-queue fences, kernel-launch update and release.        *)
(*                                                                         *)
(* The Level Zero device is modelled from the guarantees the adapter uses: *)
(*  - command lists submitted to one physical queue run one after another, *)
(*    in submission order; different physical queues run concurrently;     *)
(*  - inside a list, commands start in list order, a command starts only   *)
(*    when its wait events are signaled, a barrier / event signal / event  *)
(*    reset / wait-on-events starts only when every earlier command of the *)
(*    list has completed; recorded commands of a relaxed-ordering list may *)
(*    overlap, those of an in-order list may not;                          *)
(*  - a command's signal event is signaled when the command completes;     *)
(*  - a fence is signaled when the list it was attached to completes.      *)
(* The host calls of SpecGraph are atomic steps; SpecThreads splits them   *)
(* at their lock acquisitions.                                             *)
(***************************************************************************)
EXTENDS Integers, Naturals, Sequences, FiniteSets, TLC

\* ------------------------------------------------------------------ bounds
MaxCommands == 2
MaxEnqueues == 2
NumQueues == 2
MaxRetains == 1
MaxUpdates == 1
MaxFinalizes == 2
NumThreads == 2
NumArgs == 2
MaxHandles == 1
MaxUpdateEnqueues == 1
MaxAppends == 3
MaxPatternSize == 4
MaxPendingArgs == 2
MaxArgSize == 8
\* The events of one provider pool: the code's EVENTS_BURST is 64; the pools of
\* the model hold this many.
EVENTS_BURST == 2
MaxPools == 2
MaxCacheCalls == 2
PoolCapacity == 3

Queues == 1..NumQueues

\* ------------------------------------------------------------------ events
SignalEvent == <<"signal", 0>>
WaitEvent == <<"wait", 0>>
AllResetEvent == <<"allreset", 0>>
NoEvent == <<"none", 0>>
LaunchEvent(sp) == <<"sync", sp>>
UserEvent(n) == <<"user", n>>
ExternalEvent(n) == <<"ext", n>>

PrecondEvents == <<WaitEvent, AllResetEvent>>

\* ------------------------------------------------------ launch configuration
\* The mutable part of a kernel-launch command: global offset, group size,
\* group count and argument values. A value is <<origin, n>>: "recorded" at
\* append time (n = 0) or written by the n-th device mutation call; a group
\* size is "user" (the caller's local work size) or "suggested" (computed by
\* calculateKernelWorkDimensions from the global size).
ArgIndices == 0..(NumArgs - 1)
Recorded == <<"recorded", 0>>

Config(groupSize) ==
  [offset |-> Recorded, groupSize |-> groupSize, groupCount |-> Recorded,
   args |-> [i \in ArgIndices |-> Recorded]]

NoConfig == Config(<<"none", 0>>)

\* ZE_MUTABLE_COMMAND_EXP_FLAG_*: the device's mutableCommandFlags.
GLOBAL_OFFSET == "GLOBAL_OFFSET"
GROUP_SIZE == "GROUP_SIZE"
GROUP_COUNT == "GROUP_COUNT"
KERNEL_ARGUMENTS == "KERNEL_ARGUMENTS"
MutableCommandFlags == {GLOBAL_OFFSET, GROUP_SIZE, GROUP_COUNT, KERNEL_ARGUMENTS}

\* ----------------------------------------------------------- native commands
\* kind: the native call; waits / signal: its wait events and signal event
\* (for "reset" the signal field names the event that is reset);
\* sp, deps, seq: for a recorded command, its sync point (-1: none), the
\* sync points of its wait-list and its position in append order.
NativeCmd(kind, waits, signal, sp, deps, seq) ==
  [kind |-> kind, waits |-> waits, signal |-> signal, sp |-> sp, deps |-> deps,
   seq |-> seq, cfg |-> NoConfig]

Barrier(waits, signal) == NativeCmd("barrier", waits, signal, -1, <<>>, -1)
EventReset(ev) == NativeCmd("reset", <<>>, ev, -1, <<>>, -1)
EventSignal(ev) == NativeCmd("signal", <<>>, ev, -1, <<>>, -1)
WaitOnEvents(waits) == NativeCmd("waitOn", waits, NoEvent, -1, <<>>, -1)

SyncKinds == {"barrier", "reset", "signal", "waitOn"}
RecordedKinds == {"kernel", "memcpy", "prefetch", "fill", "advise"}

Range(s) == {s[i] : i \in 1..Len(s)}

\* ---------------------------------------------------------------- results
SUCCESS == "UR_RESULT_SUCCESS"
INVALID_OPERATION == "UR_RESULT_ERROR_INVALID_OPERATION"
INVALID_VALUE == "UR_RESULT_ERROR_INVALID_VALUE"
UNSUPPORTED_FEATURE == "UR_RESULT_ERROR_UNSUPPORTED_FEATURE"
NATIVE_ERROR == "UR_RESULT_ERROR_UNKNOWN"
INVALID_WORK_DIMENSION == "UR_RESULT_ERROR_INVALID_WORK_DIMENSION"
INVALID_WORK_GROUP_SIZE == "UR_RESULT_ERROR_INVALID_WORK_GROUP_SIZE"
INVALID_KERNEL_ARGUMENT_INDEX ==
  "UR_RESULT_ERROR_INVALID_KERNEL_ARGUMENT_INDEX"

VARIABLES
  IsInOrderCmdList, IsUpdatable, HasMainCopyEngine,
  SupportedFeatures, ZeDriverGlobalOffsetExtensionFound,
  isDG2, UseCopyEngineForD2DCopy, UseCopyEngineForFill, QueueGroup,
  ZeFenceCallsCanFail, IndirectAccessTrackingEnabled,
  KernelRefCount, SubmissionsCount, PendingArguments, ArgsApplied,
  SyncPoints, NextSyncPoint, ZeEventsList,
  ZeComputeCommandList, ZeCopyCommandList, ZeCommandListResetEvents,
  ClosedLists, IsFinalized, MCopyCommandListEmpty,
  ZeFencesMap, ZeActiveFence, FenceSignaled, FenceResult,
  KernelsList, CommandHandles, RefCount, Destroyed, NumRetains, NumReleases,
  WaitList, NumSubmissions, NumFencesCreated, SubmittedTo,
  MutationCount, UpdateCalls, LastUpdate, Pending,
  Result,
  DeviceQueue, Signaled, Began, Finished,
  pc, held, lockIdx, lockCnt,
  NewValueArgDesc, ZeMutableArgDesc,
  pools, Lent, LastEvent,
  active, full, lock, available, call, Returned

configVars == <<IsInOrderCmdList, IsUpdatable, HasMainCopyEngine,
                SupportedFeatures, ZeDriverGlobalOffsetExtensionFound,
                isDG2, UseCopyEngineForD2DCopy, UseCopyEngineForFill,
                QueueGroup, ZeFenceCallsCanFail,
                IndirectAccessTrackingEnabled>>
argVars == <<NewValueArgDesc, ZeMutableArgDesc>>
providerVars == <<pools, Lent, LastEvent>>
cacheVars == <<active, full, lock, available, call, Returned>>
extraVars == <<argVars, providerVars, cacheVars>>
kernelVars == <<KernelRefCount, SubmissionsCount, PendingArguments,
                ArgsApplied>>
recordVars == <<SyncPoints, NextSyncPoint, ZeEventsList, ZeComputeCommandList,
                ZeCopyCommandList, ZeCommandListResetEvents, ClosedLists,
                IsFinalized, MCopyCommandListEmpty, KernelsList>>
fenceVars == <<ZeFencesMap, ZeActiveFence, FenceSignaled>>
lifeVars == <<CommandHandles, RefCount, Destroyed, NumRetains, NumReleases>>
submitVars == <<WaitList, NumSubmissions, NumFencesCreated, SubmittedTo,
                FenceResult>>
updateVars == <<MutationCount, UpdateCalls, LastUpdate, Pending>>
deviceVars == <<DeviceQueue, Signaled, Began, Finished>>
threadVars == <<pc, held, lockIdx, lockCnt>>
vars == <<configVars, extraVars, kernelVars, recordVars, fenceVars, lifeVars, submitVars,
          updateVars, Result, deviceVars, threadVars>>

\* The null pointer to bytes (a pointer is written as the bytes it points to)
\* and the null handle.
nullptr == <<>>
NULL == 0

\* No by-value argument rewrite is being translated.
NoValueArg ==
  /\ NewValueArgDesc = <<>>
  /\ ZeMutableArgDesc = <<>>

\* No event provider exists.
NoProvider ==
  /\ pools = <<>>
  /\ Lent = <<>>
  /\ LastEvent = <<>>

\* An event pool cache nobody calls.
NoCache ==
  /\ active = NULL
  /\ full = <<>>
  /\ lock = NULL
  /\ available = <<>>
  /\ call = <<>>
  /\ Returned = {}

\* What the last urCommandBufferUpdateKernelLaunchExp call did: whether it
\* waited on the active fence and the mutation descriptors it handed to
\* zexCommandListUpdateMutableCommandsExp.
NoUpdate == [fenceWaited |-> FALSE, Descs |-> <<>>]

\* The arguments of an update call that has been made and has not run yet.
UpdateArgs(Command, CommandDesc) ==
  [Command |-> Command, CommandDesc |-> CommandDesc]

NoDesc ==
  [newWorkDim |-> 0, pNewGlobalWorkOffset |-> FALSE,
   pNewLocalWorkSize |-> FALSE, pNewGlobalWorkSize |-> FALSE, newArgs |-> {}]

NoCall == UpdateArgs(-1, NoDesc)

\* ------------------------------------------------------------ the graph
useCopyEngine == HasMainCopyEngine

getNextSyncPoint == NextSyncPoint

\* Number of commands recorded so far, in both lists.
RecordedIn(list) == {i \in 1..Len(list) : list[i].kind \in RecordedKinds}
NumRecorded == Cardinality(RecordedIn(ZeComputeCommandList))
               + Cardinality(RecordedIn(ZeCopyCommandList))

getEventsFromSyncPoints_reversed(SyncPointWaitList) ==
  IF \A i \in 1..Len(SyncPointWaitList) :
        SyncPointWaitList[i] \in DOMAIN SyncPoints
  THEN [ok |-> TRUE,
        events |-> [i \in 1..Len(SyncPointWaitList) |->
                       SyncPoints[SyncPointWaitList[
                          Len(SyncPointWaitList) + 1 - i]]]]
  ELSE [ok |-> FALSE, events |-> <<>>]

\* getEventsFromSyncPoints: the events of the wait-list, in order, or failure.
getEventsFromSyncPoints(SyncPointWaitList) ==
  IF \A i \in 1..Len(SyncPointWaitList) :
        SyncPointWaitList[i] \in DOMAIN SyncPoints
  THEN [ok |-> TRUE,
        events |-> [i \in 1..Len(SyncPointWaitList) |->
                       SyncPoints[SyncPointWaitList[i]]]]
  ELSE [ok |-> FALSE, events |-> <<>>]

chooseCommandList_ignoresCopyEngine(PreferCopyEngine) ==
  IF PreferCopyEngine /\ ~IsInOrderCmdList THEN "copy" ELSE "compute"

chooseCommandList_ignoresInOrder(PreferCopyEngine) ==
  IF PreferCopyEngine /\ useCopyEngine THEN "copy" ELSE "compute"

\* chooseCommandList: "copy" or "compute".
chooseCommandList(PreferCopyEngine) ==
  IF PreferCopyEngine /\ useCopyEngine /\ ~IsInOrderCmdList
  THEN "copy" ELSE "compute"

\* A native append to a list that zeCommandListClose has sealed is outside the
\* Level Zero contract: the driver either takes the command or fails the call.
NativeOutcomes(list) == IF list \in ClosedLists THEN {TRUE, FALSE} ELSE {TRUE}

\* The graph after urCommandBufferCreateExp, and the device it was created on.
GraphState ==
  /\ IsInOrderCmdList \in BOOLEAN
  /\ IsUpdatable \in BOOLEAN
  /\ HasMainCopyEngine \in BOOLEAN
  /\ SyncPoints = <<>>
  /\ NextSyncPoint = 0
  /\ ZeEventsList = <<>>
  /\ ZeComputeCommandList = <<Barrier(PrecondEvents, NoEvent)>>
  /\ ZeCommandListResetEvents = <<EventReset(SignalEvent)>>
  /\ ZeCopyCommandList = IF HasMainCopyEngine
                         THEN <<Barrier(PrecondEvents, NoEvent)>> ELSE <<>>
  /\ ClosedLists = {}
  /\ IsFinalized = FALSE
  /\ MCopyCommandListEmpty = TRUE
  /\ ZeFencesMap = {}
  /\ ZeActiveFence = 0
  /\ FenceSignaled = {}
  /\ FenceResult = SUCCESS
  /\ KernelRefCount = 1
  /\ SubmissionsCount = 0
  /\ PendingArguments = <<>>
  /\ ArgsApplied = [i \in ArgIndices |-> 0]
  /\ KernelsList = <<>>
  /\ CommandHandles = <<>>
  /\ RefCount = 1
  /\ Destroyed = 0
  /\ NumRetains = 0
  /\ NumReleases = 0
  /\ WaitList = <<>>
  /\ NumSubmissions = 0
  /\ NumFencesCreated = 0
  /\ SubmittedTo = {}
  /\ MutationCount = 0
  /\ UpdateCalls = 0
  /\ Pending = NoCall
  /\ LastUpdate = NoUpdate
  /\ Result = [op |-> "create", code |-> SUCCESS]
  /\ DeviceQueue = [pq \in Queues \X {"compute", "copy"} |-> <<>>]
  /\ Signaled = {}
  /\ Began = {}
  /\ Finished = {}

GraphInit ==
  /\ NoValueArg
  /\ NoProvider
  /\ NoCache
  /\ GraphState


\* The device supports every mutation and the driver has the global-offset
\* extension.
FullDevice ==
  /\ SupportedFeatures = MutableCommandFlags
  /\ ZeDriverGlobalOffsetExtensionFound = TRUE

\* The engine settings the specifications that record no fill and no typed
\* copy run with: not a DG2 device, copy engine not used for device-to-device
\* copies, the fill environment variables unset (0), and the
\* maxMemoryFillPatternSize of the compute and main copy queue groups.
DefaultEngines ==
  /\ isDG2 = FALSE
  /\ UseCopyEngineForD2DCopy = FALSE
  /\ UseCopyEngineForFill = FALSE
  /\ QueueGroup = [Compute |-> 2, MainCopy |-> 1]

\* zeFenceCreate and zeFenceReset always succeed.
ReliableDriver == ZeFenceCallsCanFail = FALSE

\* Indirect access tracking is off: the kernels' SubmissionsCount is not used.
NoTracking == IndirectAccessTrackingEnabled = FALSE

\* No host thread is inside a call: the calls of Spec and SpecSubmit are atomic.
NoThreads ==
  /\ pc = <<>>
  /\ held = <<>>
  /\ lockIdx = <<>>
  /\ lockCnt = <<>>

Init ==
  /\ GraphInit
  /\ FullDevice
  /\ DefaultEngines
  /\ ReliableDriver
  /\ NoTracking
  /\ NoThreads

\* ------------------------------------------------------------- recording
registerSyncPoint_noCount(SyncPoint, Event) ==
  [SyncPoints |-> (SyncPoint :> Event) @@ SyncPoints,
   NextSyncPoint |-> NextSyncPoint,
   ZeEventsList |-> Append(ZeEventsList, Event)]

\* registerSyncPoint
registerSyncPoint(SyncPoint, Event) ==
  [SyncPoints |-> (SyncPoint :> Event) @@ SyncPoints,
   NextSyncPoint |-> NextSyncPoint + 1,
   ZeEventsList |-> Append(ZeEventsList, Event)]

\* createSyncPointAndGetZeEvents: skipped for an in-order graph; otherwise the
\* wait-list is resolved, a fresh event is created and registered.
createSyncPointAndGetZeEvents(SyncPointWaitList) ==
  IF IsInOrderCmdList
  THEN [code |-> SUCCESS, ZeEventList |-> <<>>, ZeLaunchEvent |-> NoEvent,
        sp |-> -1, deps |-> <<>>,
        reg |-> [SyncPoints |-> SyncPoints, NextSyncPoint |-> NextSyncPoint,
                 ZeEventsList |-> ZeEventsList]]
  ELSE LET r == getEventsFromSyncPoints(SyncPointWaitList) IN
       IF ~r.ok
       THEN [code |-> INVALID_VALUE, ZeEventList |-> <<>>,
             ZeLaunchEvent |-> NoEvent, sp |-> -1, deps |-> <<>>,
             reg |-> [SyncPoints |-> SyncPoints,
                      NextSyncPoint |-> NextSyncPoint,
                      ZeEventsList |-> ZeEventsList]]
       ELSE [code |-> SUCCESS, ZeEventList |-> r.events,
             ZeLaunchEvent |-> LaunchEvent(getNextSyncPoint),
             sp |-> getNextSyncPoint, deps |-> SyncPointWaitList,
             reg |-> registerSyncPoint(getNextSyncPoint,
                                       LaunchEvent(getNextSyncPoint))]

\* Wait-lists a caller may pass: ids the graph issued and ids it never issued.
WaitLists == {<<>>} \cup {<<k>> : k \in 0..(MaxCommands - 1)}

Alive == Destroyed = 0 /\ RefCount > 0

\* The specifications stop recording at MaxCommands commands.
CanRecord == Alive /\ NumRecorded < MaxCommands /\ NextSyncPoint < MaxCommands
             /\ Len(KernelsList) < MaxCommands

\* The lists after native commands cmds are appended to list name.
AppendTo(name, cmds) ==
  [compute |-> IF name = "compute" THEN ZeComputeCommandList \o cmds
               ELSE ZeComputeCommandList,
   copy |-> IF name = "copy" THEN ZeCopyCommandList \o cmds
            ELSE ZeCopyCommandList]

\* enqueueCommandBufferMemCopyHelper (shared by the USM / buffer copy, read and
\* write entry points, which differ only in PreferCopyEngine).
enqueueCommandBufferMemCopyHelper(PreferCopyEngine, SyncPointWaitList) ==
  /\ Alive
  /\ LET s == createSyncPointAndGetZeEvents(SyncPointWaitList)
         name == chooseCommandList(PreferCopyEngine)
         cmd == NativeCmd("memcpy", s.ZeEventList, s.ZeLaunchEvent, s.sp,
                          s.deps, NumRecorded)
     IN IF s.code # SUCCESS
        THEN /\ Result' = [op |-> "append", code |-> s.code]
             /\ UNCHANGED <<recordVars, lifeVars>>
        ELSE /\ SyncPoints' = s.reg.SyncPoints
             /\ NextSyncPoint' = s.reg.NextSyncPoint
             /\ ZeEventsList' = s.reg.ZeEventsList
             /\ MCopyCommandListEmpty' =
                  IF name = "copy" THEN FALSE ELSE MCopyCommandListEmpty
             /\ \E ok \in NativeOutcomes(name) :
                  /\ ZeComputeCommandList' =
                       IF ok THEN AppendTo(name, <<cmd>>).compute
                       ELSE ZeComputeCommandList
                  /\ ZeCopyCommandList' =
                       IF ok THEN AppendTo(name, <<cmd>>).copy
                       ELSE ZeCopyCommandList
                  /\ Result' = [op |-> "append",
                                code |-> IF ok THEN SUCCESS ELSE NATIVE_ERROR]
             /\ UNCHANGED <<ZeCommandListResetEvents, ClosedLists, IsFinalized,
                            KernelsList, lifeVars>>
  /\ UNCHANGED <<configVars, extraVars, kernelVars, fenceVars, submitVars, updateVars, deviceVars,
                 threadVars>>

\* calculateKernelWorkDimensions: the group size is the caller's local work
\* size, or one computed from the global size when none is given; the call
\* fails when the sizes do not fit. n tags the values it returns.
calculateKernelWorkDimensions(HasLocalWorkSize, n) ==
  {[ok |-> TRUE,
    WG |-> IF HasLocalWorkSize THEN <<"user", n>> ELSE <<"suggested", n>>,
    ZeThreadGroupDimensions |-> <<"counted", n>>],
   [ok |-> FALSE, WG |-> <<"none", n>>,
    ZeThreadGroupDimensions |-> <<"none", n>>]}

\* Work dimensions a kernel can be launched with.
WorkDims == 1..3

\* zexCommandListGetNextCommandIdExp: the id of the command the compute list
\* takes next, which is its position in append order.
GetNextCommandId == NumRecorded

\* createCommandHandle: a new handle object (named by the number of kernels
\* the graph has retained so far) keeps the command id, the work dimension
\* and whether the local work size was given by the caller.
createCommandHandle(WorkDim, HasLocalWorkSize) ==
  (Len(KernelsList) :> [CommandId |-> GetNextCommandId, WorkDim |-> WorkDim,
                        UserDefinedLocalSize |-> HasLocalWorkSize])
  @@ CommandHandles

\* urKernelRetain, n times: the kernel's reference count after them.
urKernelRetain(n) == KernelRefCount + n

\* urKernelRelease, n times.
urKernelRelease(n) == KernelRefCount - n

\* The positions of the pending list whose argument the driver rejects: the
\* kernel has arguments ArgIndices, and the index of a pending argument is not
\* checked when it is set.
RejectedPending ==
  {j \in 1..Len(PendingArguments) : PendingArguments[j] \notin ArgIndices}

\* The number of pending arguments the loop of setKernelPendingArguments hands
\* to the driver with success: all of them, or those before the first one the
\* driver rejects.
NumFlushed ==
  IF RejectedPending = {} THEN Len(PendingArguments)
  ELSE (CHOOSE j \in RejectedPending : \A k \in RejectedPending : j <= k) - 1

\* The number of those with index i.
NumPending(i) == Cardinality({j \in 1..NumFlushed : PendingArguments[j] = i})

\* The zeKernelSetArgumentValue calls made for argument indices below n.
RECURSIVE NumApplied(_)
NumApplied(n) == IF n = 0 THEN 0 ELSE ArgsApplied[n - 1] + NumApplied(n - 1)

setKernelPendingArguments_keepsList ==
  [code |-> IF RejectedPending = {} THEN SUCCESS
            ELSE INVALID_KERNEL_ARGUMENT_INDEX,
   PendingArguments |-> PendingArguments,
   ArgsApplied |-> [i \in ArgIndices |-> ArgsApplied[i] + NumPending(i)]]

\* setKernelPendingArguments: one zeKernelSetArgumentValue per pending
\* argument, returning at the first that fails; then the list is cleared.
\* ArgsApplied counts the successful zeKernelSetArgumentValue calls per
\* argument index.
setKernelPendingArguments ==
  [code |-> IF RejectedPending = {} THEN SUCCESS
            ELSE INVALID_KERNEL_ARGUMENT_INDEX,
   PendingArguments |-> IF RejectedPending = {} THEN <<>>
                        ELSE PendingArguments,
   ArgsApplied |-> [i \in ArgIndices |-> ArgsApplied[i] + NumPending(i)]]

\* urKernelSetArgValue and its siblings on a kernel that is recorded into a
\* graph: the argument is kept in the kernel's pending list.
urKernelSetArg(ArgIndex) ==
  /\ Alive
  /\ Len(PendingArguments) + NumApplied(NumArgs) < MaxPendingArgs
  /\ PendingArguments' = Append(PendingArguments, ArgIndex)
  /\ Result' = [op |-> "setArg", code |-> SUCCESS]
  /\ UNCHANGED <<configVars, extraVars, KernelRefCount, SubmissionsCount, ArgsApplied,
                 recordVars, fenceVars, lifeVars, submitVars, updateVars,
                 deviceVars, threadVars>>

setKernelGlobalOffset_noCheck == SUCCESS

\* setKernelGlobalOffset: fails when the driver lacks the global-offset
\* extension.
setKernelGlobalOffset ==
  IF ~ZeDriverGlobalOffsetExtensionFound THEN INVALID_VALUE ELSE SUCCESS

\* urCommandBufferAppendKernelLaunchExp; HasGlobalWorkOffset / HasLocalWorkSize:
\* GlobalWorkOffset / LocalWorkSize is not null; WantCommand: the caller passed
\* a non-null Command out-parameter.
urCommandBufferAppendKernelLaunchExp(WorkDim, HasGlobalWorkOffset, HasLocalWorkSize, SyncPointWaitList, WantCommand) ==
  /\ Alive
  /\ \E d \in calculateKernelWorkDimensions(HasLocalWorkSize, 0) :
       IF HasGlobalWorkOffset /\ setKernelGlobalOffset # SUCCESS
       THEN /\ Result' = [op |-> "append", code |-> setKernelGlobalOffset]
            /\ UNCHANGED <<recordVars, lifeVars, kernelVars>>
       ELSE IF setKernelPendingArguments.code # SUCCESS
       THEN /\ Result' = [op |-> "append",
                          code |-> setKernelPendingArguments.code]
            /\ PendingArguments' = setKernelPendingArguments.PendingArguments
            /\ ArgsApplied' = setKernelPendingArguments.ArgsApplied
            /\ UNCHANGED <<recordVars, lifeVars, KernelRefCount,
                           SubmissionsCount>>
       ELSE IF ~d.ok
       THEN /\ Result' = [op |-> "append", code |-> INVALID_WORK_GROUP_SIZE]
            /\ PendingArguments' = setKernelPendingArguments.PendingArguments
            /\ ArgsApplied' = setKernelPendingArguments.ArgsApplied
            /\ UNCHANGED <<recordVars, lifeVars, KernelRefCount,
                           SubmissionsCount>>
       ELSE
         LET handle == WantCommand /\ IsUpdatable
             s == createSyncPointAndGetZeEvents(SyncPointWaitList)
             cmd == [NativeCmd("kernel", s.ZeEventList, s.ZeLaunchEvent, s.sp,
                               s.deps, NumRecorded)
                       EXCEPT !.cfg = Config(d.WG)]
         IN /\ PendingArguments' = setKernelPendingArguments.PendingArguments
            /\ ArgsApplied' = setKernelPendingArguments.ArgsApplied
            /\ KernelsList' = Append(KernelsList, "kernel")
            /\ KernelRefCount' = urKernelRetain(IF handle THEN 2 ELSE 1)
            /\ SubmissionsCount' = SubmissionsCount
            /\ CommandHandles' =
                 IF handle THEN createCommandHandle(WorkDim, HasLocalWorkSize)
                 ELSE CommandHandles
            /\ RefCount' = IF handle THEN RefCount + 1 ELSE RefCount
            /\ IF s.code # SUCCESS
               THEN /\ Result' = [op |-> "append", code |-> s.code]
                    /\ UNCHANGED <<SyncPoints, NextSyncPoint, ZeEventsList,
                                   ZeComputeCommandList>>
               ELSE /\ SyncPoints' = s.reg.SyncPoints
                    /\ NextSyncPoint' = s.reg.NextSyncPoint
                    /\ ZeEventsList' = s.reg.ZeEventsList
                    /\ \E ok \in NativeOutcomes("compute") :
                         /\ ZeComputeCommandList' =
                              IF ok THEN Append(ZeComputeCommandList, cmd)
                              ELSE ZeComputeCommandList
                         /\ Result' = [op |-> "append",
                                       code |-> IF ok THEN SUCCESS
                                                ELSE NATIVE_ERROR]
            /\ UNCHANGED <<ZeCopyCommandList, ZeCommandListResetEvents,
                           ClosedLists, IsFinalized, MCopyCommandListEmpty,
                           Destroyed, NumRetains, NumReleases>>
  /\ UNCHANGED <<configVars, extraVars, fenceVars, submitVars, updateVars, deviceVars,
                 threadVars>>

\* urCommandBufferAppendUSMPrefetchExp
urCommandBufferAppendUSMPrefetchExp(SyncPointWaitList) ==
  /\ Alive
  /\ LET s == createSyncPointAndGetZeEvents(SyncPointWaitList)
         prefetch == NativeCmd("prefetch", <<>>, NoEvent, s.sp, s.deps,
                               NumRecorded)
         cmds == IF IsInOrderCmdList THEN <<prefetch>>
                 ELSE (IF Len(SyncPointWaitList) > 0
                       THEN <<WaitOnEvents(s.ZeEventList)>> ELSE <<>>)
                      \o <<prefetch, EventSignal(s.ZeLaunchEvent)>>
     IN IF s.code # SUCCESS
        THEN /\ Result' = [op |-> "append", code |-> s.code]
             /\ UNCHANGED <<SyncPoints, NextSyncPoint, ZeEventsList,
                            ZeComputeCommandList>>
        ELSE /\ SyncPoints' = s.reg.SyncPoints
             /\ NextSyncPoint' = s.reg.NextSyncPoint
             /\ ZeEventsList' = s.reg.ZeEventsList
             /\ \E ok \in NativeOutcomes("compute") :
                  /\ ZeComputeCommandList' =
                       IF ok THEN ZeComputeCommandList \o cmds
                       ELSE ZeComputeCommandList
                  /\ Result' = [op |-> "append",
                                code |-> IF ok THEN SUCCESS ELSE NATIVE_ERROR]
  /\ UNCHANGED <<ZeCopyCommandList, ZeCommandListResetEvents, ClosedLists,
                 IsFinalized, MCopyCommandListEmpty, KernelsList, lifeVars>>
  /\ UNCHANGED <<configVars, extraVars, kernelVars, fenceVars, submitVars, updateVars, deviceVars,
                 threadVars>>

\* ------------------------------------------------- typed copies and fills
\* The kind of USM allocation a pointer names (zeMemGetAllocProperties).
PointerKinds == {"device", "shared", "host"}

IsDevicePointer(Ptr) == Ptr = "device"

IsSharedPointer(Ptr) == Ptr = "shared"

USMMemcpyPreference_noDG2(Dst, Src) ==
  (~IsDevicePointer(Src) \/ ~IsDevicePointer(Dst)) \/ UseCopyEngineForD2DCopy

\* The PreferCopyEngine value urCommandBufferAppendUSMMemcpyExp computes.
USMMemcpyPreference(Dst, Src) ==
  LET hostSide == ~IsDevicePointer(Src) \/ ~IsDevicePointer(Dst)
      first == IF isDG2 /\ (IsSharedPointer(Src) \/ IsSharedPointer(Dst))
               THEN FALSE ELSE hostSide
  IN first \/ UseCopyEngineForD2DCopy

\* urCommandBufferAppendUSMMemcpyExp
urCommandBufferAppendUSMMemcpyExp(Dst, Src, SyncPointWaitList) ==
  enqueueCommandBufferMemCopyHelper(USMMemcpyPreference(Dst, Src),
                                    SyncPointWaitList)

\* The PreferCopyEngine value of the buffer copy and copy-rect entry points;
\* SrcOnHost / DstOnHost: the buffers' OnHost fields.
BufferCopyPreference(SrcOnHost, DstOnHost) ==
  (SrcOnHost \/ DstOnHost) \/ UseCopyEngineForD2DCopy

\* enqueueCommandBufferMemCopyRectHelper: the steps of
\* enqueueCommandBufferMemCopyHelper with zeCommandListAppendMemoryCopyRegion
\* as the native call.
enqueueCommandBufferMemCopyRectHelper(PreferCopyEngine, SyncPointWaitList) ==
  enqueueCommandBufferMemCopyHelper(PreferCopyEngine, SyncPointWaitList)

\* urCommandBufferAppendMemBufferCopyExp
urCommandBufferAppendMemBufferCopyExp(SrcOnHost, DstOnHost, SyncPointWaitList) ==
  enqueueCommandBufferMemCopyHelper(BufferCopyPreference(SrcOnHost, DstOnHost),
                                    SyncPointWaitList)

\* urCommandBufferAppendMemBufferCopyRectExp
urCommandBufferAppendMemBufferCopyRectExp(SrcOnHost, DstOnHost, SyncPointWaitList) ==
  enqueueCommandBufferMemCopyRectHelper(
    BufferCopyPreference(SrcOnHost, DstOnHost), SyncPointWaitList)

\* "Always prefer copy engine for writes" / "for reads".
ReadWritePreference == TRUE

\* urCommandBufferAppendMemBufferWriteExp
urCommandBufferAppendMemBufferWriteExp(SyncPointWaitList) ==
  enqueueCommandBufferMemCopyHelper(ReadWritePreference, SyncPointWaitList)

\* urCommandBufferAppendMemBufferWriteRectExp
urCommandBufferAppendMemBufferWriteRectExp(SyncPointWaitList) ==
  enqueueCommandBufferMemCopyRectHelper(ReadWritePreference, SyncPointWaitList)

\* urCommandBufferAppendMemBufferReadExp
urCommandBufferAppendMemBufferReadExp(SyncPointWaitList) ==
  enqueueCommandBufferMemCopyHelper(ReadWritePreference, SyncPointWaitList)

\* urCommandBufferAppendMemBufferReadRectExp
urCommandBufferAppendMemBufferReadRectExp(SyncPointWaitList) ==
  enqueueCommandBufferMemCopyRectHelper(ReadWritePreference, SyncPointWaitList)

\* (PatternSize > 0) && ((PatternSize & (PatternSize - 1)) == 0)
IsPowerOfTwo(PatternSize) ==
  PatternSize > 0 /\ \E k \in 0..PatternSize : 2^k = PatternSize

preferCopyEngineForFill_noOverride(PatternSize) ==
  IF ~useCopyEngine
  THEN [code |-> SUCCESS, PreferCopyEngine |-> FALSE]
  ELSE LET fits == PatternSize <= QueueGroup.MainCopy IN
       IF ~fits /\ ~(PatternSize <= QueueGroup.Compute)
       THEN [code |-> INVALID_VALUE, PreferCopyEngine |-> FALSE]
       ELSE [code |-> SUCCESS, PreferCopyEngine |-> fits]

\* preferCopyEngineForFill: the result code and PreferCopyEngine.
\* UseCopyEngineForFill is the value of UR_L0_USE_COPY_ENGINE_FOR_FILL /
\* SYCL_PI_LEVEL_ZERO_USE_COPY_ENGINE_FOR_FILL (0 when neither is set).
preferCopyEngineForFill(PatternSize) ==
  IF ~useCopyEngine
  THEN [code |-> SUCCESS, PreferCopyEngine |-> FALSE]
  ELSE LET fits == PatternSize <= QueueGroup.MainCopy IN
       IF ~fits /\ ~(PatternSize <= QueueGroup.Compute)
       THEN [code |-> INVALID_VALUE, PreferCopyEngine |-> FALSE]
       ELSE [code |-> SUCCESS,
             PreferCopyEngine |-> fits /\ UseCopyEngineForFill]

\* enqueueCommandBufferFillHelper (shared by the buffer and USM fill entry
\* points): the sync point is registered before the engine is chosen, so a
\* pattern that fits no engine fails the call with the sync point registered.
enqueueCommandBufferFillHelper(PatternSize, SyncPointWaitList) ==
  /\ Alive
  /\ IF ~IsPowerOfTwo(PatternSize)
     THEN /\ Result' = [op |-> "append", code |-> INVALID_VALUE]
          /\ UNCHANGED recordVars
     ELSE
       LET s == createSyncPointAndGetZeEvents(SyncPointWaitList)
           p == preferCopyEngineForFill(PatternSize)
           name == chooseCommandList(p.PreferCopyEngine)
           cmd == NativeCmd("fill", s.ZeEventList, s.ZeLaunchEvent, s.sp,
                            s.deps, NumRecorded)
       IN IF s.code # SUCCESS
          THEN /\ Result' = [op |-> "append", code |-> s.code]
               /\ UNCHANGED recordVars
          ELSE /\ SyncPoints' = s.reg.SyncPoints
               /\ NextSyncPoint' = s.reg.NextSyncPoint
               /\ ZeEventsList' = s.reg.ZeEventsList
               /\ IF p.code # SUCCESS
                  THEN /\ Result' = [op |-> "append", code |-> p.code]
                       /\ UNCHANGED <<ZeComputeCommandList, ZeCopyCommandList,
                                      MCopyCommandListEmpty>>
                  ELSE /\ MCopyCommandListEmpty' =
                            IF name = "copy" THEN FALSE
                            ELSE MCopyCommandListEmpty
                       /\ \E ok \in NativeOutcomes(name) :
                            /\ ZeComputeCommandList' =
                                 IF ok THEN AppendTo(name, <<cmd>>).compute
                                 ELSE ZeComputeCommandList
                            /\ ZeCopyCommandList' =
                                 IF ok THEN AppendTo(name, <<cmd>>).copy
                                 ELSE ZeCopyCommandList
                            /\ Result' = [op |-> "append",
                                          code |-> IF ok THEN SUCCESS
                                                   ELSE NATIVE_ERROR]
               /\ UNCHANGED <<ZeCommandListResetEvents, ClosedLists,
                              IsFinalized, KernelsList>>
  /\ UNCHANGED <<configVars, extraVars, kernelVars, fenceVars, lifeVars, submitVars, updateVars,
                 deviceVars, threadVars>>

\* urCommandBufferAppendMemBufferFillExp
urCommandBufferAppendMemBufferFillExp(PatternSize, SyncPointWaitList) ==
  enqueueCommandBufferFillHelper(PatternSize, SyncPointWaitList)

\* urCommandBufferAppendUSMFillExp
urCommandBufferAppendUSMFillExp(PatternSize, SyncPointWaitList) ==
  enqueueCommandBufferFillHelper(PatternSize, SyncPointWaitList)

\* urCommandBufferAppendUSMAdviseExp
urCommandBufferAppendUSMAdviseExp(SyncPointWaitList) ==
  /\ Alive
  /\ LET s == createSyncPointAndGetZeEvents(SyncPointWaitList)
         advise == NativeCmd("advise", <<>>, NoEvent, s.sp, s.deps,
                             NumRecorded)
         cmds == IF IsInOrderCmdList THEN <<advise>>
                 ELSE (IF Len(SyncPointWaitList) > 0
                       THEN <<WaitOnEvents(s.ZeEventList)>> ELSE <<>>)
                      \o <<advise, EventSignal(s.ZeLaunchEvent)>>
     IN IF s.code # SUCCESS
        THEN /\ Result' = [op |-> "append", code |-> s.code]
             /\ UNCHANGED <<SyncPoints, NextSyncPoint, ZeEventsList,
                            ZeComputeCommandList>>
        ELSE /\ SyncPoints' = s.reg.SyncPoints
             /\ NextSyncPoint' = s.reg.NextSyncPoint
             /\ ZeEventsList' = s.reg.ZeEventsList
             /\ \E ok \in NativeOutcomes("compute") :
                  /\ ZeComputeCommandList' =
                       IF ok THEN ZeComputeCommandList \o cmds
                       ELSE ZeComputeCommandList
                  /\ Result' = [op |-> "append",
                                code |-> IF ok THEN SUCCESS ELSE NATIVE_ERROR]
  /\ UNCHANGED <<ZeCopyCommandList, ZeCommandListResetEvents, ClosedLists,
                 IsFinalized, MCopyCommandListEmpty, KernelsList, lifeVars>>
  /\ UNCHANGED <<configVars, extraVars, kernelVars, fenceVars, submitVars, updateVars, deviceVars,
                 threadVars>>

\* ------------------------------------------------------------- finalize
NumFinalizeTails ==
  Cardinality({i \in 1..Len(ZeCommandListResetEvents) :
                 ZeCommandListResetEvents[i] = EventSignal(AllResetEvent)})

ResetsOf_skipsFirst(events) == [i \in 1..(Len(events) - 1) |-> EventReset(events[i + 1])]

\* The resets finalize appends: one per tracked event, in order.
ResetsOf(events) == [i \in 1..Len(events) |-> EventReset(events[i])]

ListsToClose_mainOnly == {"compute", "reset"}

\* The lists finalize closes: the compute list, the reset-events list and, if
\* the graph has one, the copy list.
ListsToClose ==
  {"compute", "reset"} \cup (IF useCopyEngine THEN {"copy"} ELSE {})

\* urCommandBufferFinalizeExp
urCommandBufferFinalizeExp ==
  /\ Alive
  /\ NumFinalizeTails < MaxFinalizes
  /\ \E ok \in NativeOutcomes("compute") :
       IF ~ok
       THEN /\ Result' = [op |-> "finalize", code |-> NATIVE_ERROR]
            /\ UNCHANGED recordVars
       ELSE /\ ZeComputeCommandList' =
                 IF IsInOrderCmdList
                 THEN Append(ZeComputeCommandList, EventSignal(SignalEvent))
                 ELSE Append(ZeComputeCommandList,
                             Barrier(ZeEventsList, SignalEvent))
            /\ ZeCommandListResetEvents' =
                 (IF IsInOrderCmdList THEN ZeCommandListResetEvents
                  ELSE ZeCommandListResetEvents \o ResetsOf(ZeEventsList))
                 \o <<EventSignal(AllResetEvent)>>
            /\ ClosedLists' = ClosedLists \cup ListsToClose
            /\ IsFinalized' = TRUE
            /\ Result' = [op |-> "finalize", code |-> SUCCESS]
            /\ UNCHANGED <<SyncPoints, NextSyncPoint, ZeEventsList,
                           ZeCopyCommandList, MCopyCommandListEmpty,
                           KernelsList>>
  /\ UNCHANGED <<configVars, extraVars, kernelVars, fenceVars, lifeVars, submitVars, updateVars,
                 deviceVars, threadVars>>

\* ------------------------------------------------------------- enqueue
\* A command list handed to a physical queue: the commands it held when it was
\* submitted, how many of them have started, which of them are running, and
\* the fence attached to the submission (0: none).
Instance(list, sub, cmds, fence, inorder) ==
  [list |-> list, sub |-> sub, cmds |-> cmds, next |-> 0, running |-> {},
   fence |-> fence, inorder |-> inorder]

ComputeQueue(q) == <<q, "compute">>
CopyQueue(q) == <<q, "copy">>

getFenceForQueue_alwaysCreates(q) ==
  [ZeFencesMap |-> ZeFencesMap \cup {q},
   NumFencesCreated |-> NumFencesCreated + 1,
   FenceSignaled |-> FenceSignaled \ {q},
   ZeActiveFence |-> q, code |-> SUCCESS, ZeFence |-> q]

\* getFenceForQueue: create the fence of the queue, or reset and reuse it.
\* The fence of queue q is named q; NumFencesCreated counts zeFenceCreate.
getFenceForQueue(q) ==
  [ZeFencesMap |-> ZeFencesMap \cup {q},
   NumFencesCreated |-> IF q \in ZeFencesMap THEN NumFencesCreated
                        ELSE NumFencesCreated + 1,
   FenceSignaled |-> FenceSignaled \ {q},
   ZeActiveFence |-> q, code |-> SUCCESS, ZeFence |-> q]

\* getFenceForQueue when its native call fails: it returns the error before
\* it touches the table or the active fence. A failed zeFenceReset leaves the
\* found fence in ZeFence, not reset; a failed zeFenceCreate leaves the
\* caller's ZeFence uninitialized, which is then any fence handle or null.
getFenceForQueueFails(q) ==
  {[ZeFencesMap |-> ZeFencesMap, NumFencesCreated |-> NumFencesCreated,
    FenceSignaled |-> FenceSignaled, ZeActiveFence |-> ZeActiveFence,
    code |-> NATIVE_ERROR, ZeFence |-> f] :
     f \in IF q \in ZeFencesMap THEN {q} ELSE 0..NumQueues}

\* The outcomes of the getFenceForQueue call of an enqueue.
FenceOutcomes(q) ==
  {getFenceForQueue(q)}
  \cup (IF ZeFenceCallsCanFail THEN getFenceForQueueFails(q) ELSE {})

\* The short-lived signal list of a submission.
SignalCommandList(n, WantEvent) ==
  <<EventReset(WaitEvent), EventReset(AllResetEvent)>>
  \o (IF WantEvent THEN <<Barrier(<<SignalEvent>>, UserEvent(n))>> ELSE <<>>)

MergeWaitList_replaces(TmpWaitList) == TmpWaitList

\* waitForDependencies: the caller's wait events become the wait-list of the
\* graph's WaitEvent if that is empty, and are appended to it otherwise.
MergeWaitList(TmpWaitList) == WaitList \o TmpWaitList

\* urCommandBufferEnqueueExp, with waitForDependencies and createUserEvent.
\* HasWaitList: the caller passed one wait event, ExternalEvent(n).
urCommandBufferEnqueueExp(q, HasWaitList, WantEvent) ==
  /\ Alive
  /\ IsFinalized
  /\ NumSubmissions < MaxEnqueues
  /\ \E f \in FenceOutcomes(q) :
     LET n == NumSubmissions + 1
         TmpWaitList == IF HasWaitList THEN <<ExternalEvent(n)>> ELSE <<>>
         NewWaitList == MergeWaitList(TmpWaitList)
         MustSignalWaitEvent == ~(HasWaitList /\ Len(NewWaitList) > 0)
         waitInst == IF MustSignalWaitEvent THEN <<>>
                     ELSE <<Instance("wait", n,
                                     <<Barrier(NewWaitList, WaitEvent)>>,
                                     0, FALSE)>>
         copyInst == IF ~MCopyCommandListEmpty
                     THEN <<Instance("copy", n, ZeCopyCommandList, 0, FALSE)>>
                     ELSE <<>>
     IN /\ ZeFencesMap' = f.ZeFencesMap
        /\ FenceResult' = f.code
        /\ FenceSignaled' = f.FenceSignaled
        /\ ZeActiveFence' = f.ZeActiveFence
        /\ NumFencesCreated' = f.NumFencesCreated
        /\ SubmittedTo' = SubmittedTo \cup {ComputeQueue(q)}
                            \cup (IF ~MCopyCommandListEmpty
                                  THEN {CopyQueue(q)} ELSE {})
        /\ WaitList' = NewWaitList
        /\ Signaled' = IF MustSignalWaitEvent
                       THEN Signaled \cup {WaitEvent} ELSE Signaled
        /\ DeviceQueue' =
             [DeviceQueue EXCEPT
                ![ComputeQueue(q)] =
                   @ \o waitInst
                     \o <<Instance("reset", n, ZeCommandListResetEvents, 0,
                                   FALSE),
                          Instance("compute", n, ZeComputeCommandList,
                                   f.ZeFence, IsInOrderCmdList),
                          Instance("signal", n,
                                   SignalCommandList(n, WantEvent), 0, FALSE)>>,
                ![CopyQueue(q)] = @ \o copyInst]
        /\ NumSubmissions' = n
        /\ Result' = [op |-> "enqueue", code |-> SUCCESS]
  /\ UNCHANGED <<configVars, extraVars, kernelVars, recordVars, lifeVars, updateVars, Began,
                 Finished, threadVars>>

\* The producer of a caller-supplied wait event completes.
SignalExternalEvent(n) ==
  /\ ExternalEvent(n) \in Range(WaitList)
  /\ ExternalEvent(n) \notin Signaled
  /\ Signaled' = Signaled \cup {ExternalEvent(n)}
  /\ UNCHANGED <<configVars, extraVars, kernelVars, recordVars, fenceVars, lifeVars, submitVars,
                 updateVars, Result, DeviceQueue, Began, Finished,
                 threadVars>>

\* ------------------------------------------------------------- the device
PhysicalQueues == Queues \X {"compute", "copy"}

Busy(pq) == Len(DeviceQueue[pq]) > 0
HeadList(pq) == DeviceQueue[pq][1]
NextCmd(pq) == HeadList(pq).cmds[HeadList(pq).next + 1]
HasNext(pq) == Busy(pq) /\ HeadList(pq).next < Len(HeadList(pq).cmds)
Ready(pq) == HasNext(pq) /\ Range(NextCmd(pq).waits) \subseteq Signaled

\* The events after a barrier, signal or reset has executed.
AfterSync(cmd) ==
  IF cmd.kind = "reset" THEN Signaled \ {cmd.signal}
  ELSE IF cmd.kind \in {"barrier", "signal"} /\ cmd.signal # NoEvent
       THEN Signaled \cup {cmd.signal}
       ELSE Signaled

\* The queue after its head list has executed one more step: a list whose
\* commands have all completed leaves the queue.
Advance(pq, inst) ==
  IF inst.next = Len(inst.cmds) /\ inst.running = {}
  THEN [DeviceQueue EXCEPT ![pq] = Tail(@)]
  ELSE [DeviceQueue EXCEPT ![pq][1] = inst]

\* The fence attached to a list is signaled when the list completes.
FencesAfter(inst) ==
  IF inst.next = Len(inst.cmds) /\ inst.running = {} /\ inst.fence # 0
  THEN FenceSignaled \cup {inst.fence}
  ELSE FenceSignaled

\* A barrier, event signal, event reset or wait-on-events executes.
DeviceSync(pq) ==
  /\ Ready(pq)
  /\ NextCmd(pq).kind \in SyncKinds
  /\ HeadList(pq).running = {}
  /\ Signaled' = AfterSync(NextCmd(pq))
  /\ LET inst == [HeadList(pq) EXCEPT !.next = @ + 1] IN
       /\ DeviceQueue' = Advance(pq, inst)
       /\ FenceSignaled' = FencesAfter(inst)
  /\ UNCHANGED <<configVars, extraVars, kernelVars, recordVars, ZeFencesMap, ZeActiveFence, lifeVars,
                 submitVars, updateVars, Result, Began, Finished,
                 threadVars>>

\* A recorded command begins executing.
DeviceBegin(pq) ==
  /\ Ready(pq)
  /\ NextCmd(pq).kind \in RecordedKinds
  /\ HeadList(pq).inorder => HeadList(pq).running = {}
  /\ Began' = Began \cup {<<HeadList(pq).sub, NextCmd(pq).seq>>}
  /\ DeviceQueue' = [DeviceQueue EXCEPT ![pq][1].next = @ + 1,
                                        ![pq][1].running =
                                           @ \cup {HeadList(pq).next + 1}]
  /\ UNCHANGED <<configVars, extraVars, kernelVars, recordVars, fenceVars, lifeVars, submitVars,
                 updateVars, Result, Signaled, Finished, threadVars>>

\* A running recorded command completes and signals its event.
DeviceComplete(pq) ==
  /\ Busy(pq)
  /\ \E i \in HeadList(pq).running :
       LET cmd == HeadList(pq).cmds[i]
           inst == [HeadList(pq) EXCEPT !.running = @ \ {i}]
       IN /\ Finished' = Finished \cup {<<HeadList(pq).sub, cmd.seq>>}
          /\ Signaled' = IF cmd.signal # NoEvent
                         THEN Signaled \cup {cmd.signal} ELSE Signaled
          /\ DeviceQueue' = Advance(pq, inst)
          /\ FenceSignaled' = FencesAfter(inst)
  /\ UNCHANGED <<configVars, extraVars, kernelVars, recordVars, ZeFencesMap, ZeActiveFence, lifeVars,
                 submitVars, updateVars, Result, Began, threadVars>>

\* ------------------------------------------------------------- update
\* Some list of the graph is still held by a physical queue.
GraphLists == {"reset", "compute", "copy"}
InFlight(lists) ==
  \E pq \in PhysicalQueues : \E i \in 1..Len(DeviceQueue[pq]) :
     DeviceQueue[pq][i].list \in lists

\* ur_exp_command_buffer_update_kernel_launch_desc_t: newWorkDim, whether
\* each of pNewGlobalWorkOffset, pNewLocalWorkSize and pNewGlobalWorkSize is
\* non-null, and the indices of the arguments the update rewrites.
UpdateDescs ==
  [newWorkDim : 0..4, pNewGlobalWorkOffset : BOOLEAN,
   pNewLocalWorkSize : BOOLEAN, pNewGlobalWorkSize : BOOLEAN,
   newArgs : SUBSET ArgIndices]

\* An update that rewrites argument 0 only.
ArgUpdate ==
  [newWorkDim |-> 0, pNewGlobalWorkOffset |-> FALSE,
   pNewLocalWorkSize |-> FALSE, pNewGlobalWorkSize |-> FALSE, newArgs |-> {0}]

\* A mutant of the work-dimension check: the dimension is not compared.
WorkDimChanges_ignored(Command, CommandDesc) == FALSE

\* validateCommandDesc: the new work dimension differs from the handle's.
WorkDimChanges(Command, CommandDesc) ==
  CommandDesc.newWorkDim # CommandHandles[Command].WorkDim

\* A mutant of the size check: a local size without a global size is accepted.
LocalWithoutGlobal_accepted(CommandDesc) == FALSE

\* validateCommandDesc: a new local size and no new global size.
LocalWithoutGlobal(CommandDesc) ==
  CommandDesc.pNewLocalWorkSize /\ ~CommandDesc.pNewGlobalWorkSize

\* validateCommandDesc: the update gives a local size and the command was
\* created without one, or the other way round.
LocalSizeToggles(Command, CommandDesc) ==
  LET IsNewLocalSizeNull == ~CommandDesc.pNewLocalWorkSize
      IsOriginalLocalSizeNull == ~CommandHandles[Command].UserDefinedLocalSize
  IN IsNewLocalSizeNull # IsOriginalLocalSizeNull

\* validateCommandDesc, first part: the checks made when newWorkDim is not 0.
validateWorkDim(Command, CommandDesc) ==
  LET Dim == CommandDesc.newWorkDim
  IN IF Dim = 0 THEN SUCCESS
     ELSE IF WorkDimChanges(Command, CommandDesc) THEN INVALID_OPERATION
     ELSE IF LocalWithoutGlobal(CommandDesc) THEN INVALID_OPERATION
     ELSE IF LocalSizeToggles(Command, CommandDesc) THEN INVALID_OPERATION
     ELSE SUCCESS

\* validateCommandDesc, second part: every requested change against the
\* device's mutable-command flags, in the order of the code.
validateFeatures(CommandDesc) ==
  LET Dim == CommandDesc.newWorkDim
      NewGlobalWorkOffset == CommandDesc.pNewGlobalWorkOffset
      NewLocalWorkSize == CommandDesc.pNewLocalWorkSize
      NewGlobalWorkSize == CommandDesc.pNewGlobalWorkSize
  IN IF NewGlobalWorkOffset /\ GLOBAL_OFFSET \notin SupportedFeatures
     THEN UNSUPPORTED_FEATURE
     ELSE IF NewGlobalWorkOffset /\ Dim > 0
             /\ ~ZeDriverGlobalOffsetExtensionFound
     THEN INVALID_VALUE
     ELSE IF NewLocalWorkSize /\ GROUP_SIZE \notin SupportedFeatures
     THEN UNSUPPORTED_FEATURE
     ELSE IF NewGlobalWorkSize /\ GROUP_COUNT \notin SupportedFeatures
     THEN UNSUPPORTED_FEATURE
     ELSE IF NewGlobalWorkSize /\ ~NewLocalWorkSize
             /\ GROUP_SIZE \notin SupportedFeatures
     THEN UNSUPPORTED_FEATURE
     ELSE IF CommandDesc.newArgs # {}
             /\ KERNEL_ARGUMENTS \notin SupportedFeatures
     THEN UNSUPPORTED_FEATURE
     ELSE SUCCESS

\* A mutant of the validation: the device's flags are not consulted.
validateCommandDesc_dimsOnly(Command, CommandDesc) ==
  validateWorkDim(Command, CommandDesc)

\* validateCommandDesc
validateCommandDesc(Command, CommandDesc) ==
  IF validateWorkDim(Command, CommandDesc) # SUCCESS
  THEN validateWorkDim(Command, CommandDesc)
  ELSE validateFeatures(CommandDesc)

MutationDesc_noCommandId(commandId, type, argIndex, value) ==
  [commandId |-> -1, type |-> type, argIndex |-> argIndex, value |-> value]

\* One mutation descriptor of the chain handed to the device; commandId names
\* the command it mutates.
MutationDesc(commandId, type, argIndex, value) ==
  [commandId |-> commandId, type |-> type, argIndex |-> argIndex,
   value |-> value]

\* The argument descriptors: the code walks each argument list from its last
\* entry to its first.
RECURSIVE ArgDescs(_, _, _)
ArgDescs(commandId, args, n) ==
  IF args = {} THEN <<>>
  ELSE LET i == CHOOSE j \in args : \A k \in args : k <= j
       IN <<MutationDesc(commandId, "arg", i, <<"user", n>>)>>
          \o ArgDescs(commandId, args \ {i}, n)

\* A mutant: no group size accompanies a new group count.
UpdateWGSize_never(CommandDesc) == FALSE

\* updateKernelCommand: a new global size without a new local size needs a
\* group size from calculateKernelWorkDimensions.
UpdateWGSize(CommandDesc) == ~CommandDesc.pNewLocalWorkSize

\* updateKernelCommand, the descriptors it builds: offset, group size, group
\* count (with a group size from calculateKernelWorkDimensions when the caller
\* gave no local size), one descriptor per rewritten argument; d is the result
\* of calculateKernelWorkDimensions, n tags the new values.
MutationDescs(Command, CommandDesc, d, n) ==
  LET Dim == CommandDesc.newWorkDim
      CommandId == CommandHandles[Command].CommandId
      NewGlobalWorkOffset == CommandDesc.pNewGlobalWorkOffset
      NewLocalWorkSize == CommandDesc.pNewLocalWorkSize
      NewGlobalWorkSize == CommandDesc.pNewGlobalWorkSize
  IN (IF NewGlobalWorkOffset /\ Dim > 0
      THEN <<MutationDesc(CommandId, "offset", -1, <<"user", n>>)>>
      ELSE <<>>)
     \o (IF NewLocalWorkSize /\ Dim > 0
         THEN <<MutationDesc(CommandId, "groupSize", -1, <<"user", n>>)>>
         ELSE <<>>)
     \o (IF NewGlobalWorkSize /\ Dim > 0
         THEN <<MutationDesc(CommandId, "groupCount", -1,
                             d.ZeThreadGroupDimensions)>>
              \o (IF UpdateWGSize(CommandDesc)
                  THEN <<MutationDesc(CommandId, "groupSize", -1, d.WG)>>
                  ELSE <<>>)
         ELSE <<>>)
     \o ArgDescs(CommandId, CommandDesc.newArgs, n)

\* zexCommandListUpdateMutableCommandsExp applies one descriptor.
ApplyDesc(cfg, desc) ==
  CASE desc.type = "offset" -> [cfg EXCEPT !.offset = desc.value]
    [] desc.type = "groupSize" -> [cfg EXCEPT !.groupSize = desc.value]
    [] desc.type = "groupCount" -> [cfg EXCEPT !.groupCount = desc.value]
    [] desc.type = "arg" -> [cfg EXCEPT !.args[desc.argIndex] = desc.value]

RECURSIVE ApplyDescs(_, _)
ApplyDescs(cfg, Descs) ==
  IF Descs = <<>> THEN cfg
  ELSE ApplyDescs(ApplyDesc(cfg, Head(Descs)), Tail(Descs))

\* The descriptors of a chain that name command id.
DescsFor(Descs, id) == SelectSeq(Descs, LAMBDA desc : desc.commandId = id)

\* zexCommandListUpdateMutableCommandsExp: the compute list after the one
\* device call that applies the chain, each descriptor to the command it names.
zexCommandListUpdateMutableCommandsExp(Descs) ==
  [i \in 1..Len(ZeComputeCommandList) |->
     IF ZeComputeCommandList[i].kind = "kernel"
     THEN [ZeComputeCommandList[i] EXCEPT
             !.cfg = ApplyDescs(@, DescsFor(Descs, ZeComputeCommandList[i].seq))]
     ELSE ZeComputeCommandList[i]]

\* updateKernelCommand: the chain is built and handed to the device.
updateKernelCommand(Command, CommandDesc, d, n) ==
  zexCommandListUpdateMutableCommandsExp(
    MutationDescs(Command, CommandDesc, d, n))

\* The update returns code before it waits on a fence or mutates anything.
RejectUpdate(code) ==
  /\ Result' = [op |-> "update", code |-> code]
  /\ LastUpdate' = NoUpdate
  /\ UNCHANGED <<recordVars, MutationCount>>

\* A mutant of the assertions: the graph need not be finalized.
UpdatePreconditions_updatableOnly == IsUpdatable

\* The asserted state of the graph: updatable and finalized.
UpdatePreconditions == IsUpdatable /\ IsFinalized

\* urCommandBufferUpdateKernelLaunchExp on command handle Command. The host
\* wait on the active fence is the step's guard.
urCommandBufferUpdateKernelLaunchExp(Command, CommandDesc) ==
  /\ Alive
  /\ Command \in DOMAIN CommandHandles
  /\ UpdateCalls < MaxUpdates
  /\ UpdateCalls' = UpdateCalls + 1
  /\ Pending' = NoCall
  /\ IF CommandDesc.newWorkDim > 3
     THEN RejectUpdate(INVALID_WORK_DIMENSION)
     ELSE IF ~UpdatePreconditions
     THEN RejectUpdate(INVALID_OPERATION)
     ELSE IF validateCommandDesc(Command, CommandDesc) # SUCCESS
     THEN RejectUpdate(validateCommandDesc(Command, CommandDesc))
     ELSE /\ ZeActiveFence # 0 => ZeActiveFence \in FenceSignaled
          /\ \E d \in calculateKernelWorkDimensions(
                         CommandDesc.pNewLocalWorkSize, MutationCount + 1) :
               IF CommandDesc.pNewGlobalWorkSize /\ CommandDesc.newWorkDim > 0
                  /\ ~d.ok
               THEN /\ Result' = [op |-> "update",
                                  code |-> INVALID_WORK_GROUP_SIZE]
                    /\ LastUpdate' = [fenceWaited |-> ZeActiveFence # 0,
                                      Descs |-> <<>>]
                    /\ UNCHANGED <<recordVars, MutationCount>>
               ELSE LET Descs == MutationDescs(Command, CommandDesc, d,
                                               MutationCount + 1)
                    IN /\ ZeComputeCommandList' =
                            updateKernelCommand(Command, CommandDesc, d,
                                                MutationCount + 1)
                       /\ MutationCount' = MutationCount + 1
                       /\ LastUpdate' = [fenceWaited |-> ZeActiveFence # 0,
                                         Descs |-> Descs]
                       /\ ClosedLists' = ClosedLists \cup {"compute"}
                       /\ Result' = [op |-> "update", code |-> SUCCESS]
                       /\ UNCHANGED <<SyncPoints, NextSyncPoint, ZeEventsList,
                                      ZeCopyCommandList,
                                      ZeCommandListResetEvents, IsFinalized,
                                      MCopyCommandListEmpty, KernelsList>>
  /\ UNCHANGED <<configVars, extraVars, kernelVars, fenceVars, lifeVars, submitVars, deviceVars,
                 threadVars>>

\* ------------------------------------------------------------- lifetime
\* NumRetains / NumReleases count the urCommandBufferRetainExp and
\* urCommandBufferReleaseExp calls made on the graph.
\* References the caller holds (the others belong to command handles).
CallerRefs == RefCount - Cardinality(DOMAIN CommandHandles)

\* urCommandBufferRetainExp
urCommandBufferRetainExp ==
  /\ Alive
  /\ CallerRefs <= MaxRetains
  /\ NumRetains <= MaxRetains
  /\ RefCount' = RefCount + 1
  /\ NumRetains' = NumRetains + 1
  /\ Result' = [op |-> "retain", code |-> SUCCESS]
  /\ UNCHANGED <<configVars, extraVars, kernelVars, recordVars, fenceVars, CommandHandles, Destroyed,
                 NumReleases, submitVars, updateVars, deviceVars, threadVars>>

ReleaseGraph_keepsCount ==
  /\ RefCount' = RefCount
  /\ Destroyed' = Destroyed

\* cleanupCommandBufferResources, the kernels: for every entry of KernelsList
\* the kernel's SubmissionsCount is decremented (under indirect access tracking
\* only) and the kernel is released. SubmissionsCount is kept as the integer
\* the increments and decrements add up to; the 32-bit unsigned counter holds
\* it modulo 2^32. own: the kernel references the calling destructor drops
\* besides.
ReleaseKernels(destroy, own) ==
  /\ KernelRefCount' =
       urKernelRelease(own + (IF destroy THEN Len(KernelsList) ELSE 0))
  /\ SubmissionsCount' =
       IF destroy /\ IndirectAccessTrackingEnabled
       THEN SubmissionsCount - Len(KernelsList)
       ELSE SubmissionsCount
  /\ UNCHANGED <<PendingArguments, ArgsApplied>>

\* decrementAndTest followed by cleanupCommandBufferResources and delete.
ReleaseGraph ==
  /\ RefCount' = RefCount - 1
  /\ Destroyed' = IF RefCount = 1 THEN Destroyed + 1 ELSE Destroyed

\* urCommandBufferReleaseExp
urCommandBufferReleaseExp ==
  /\ Alive
  /\ CallerRefs > 0
  /\ ReleaseGraph
  /\ ReleaseKernels(RefCount = 1, 0)
  /\ NumReleases' = NumReleases + 1
  /\ Result' = [op |-> "release", code |-> SUCCESS]
  /\ UNCHANGED <<configVars, extraVars, recordVars, fenceVars, CommandHandles, NumRetains,
                 submitVars, updateVars, deviceVars, threadVars>>

\* urCommandBufferReleaseCommandExp: the last reference of a command handle is
\* dropped; its destructor releases the graph.
urCommandBufferReleaseCommandExp(Command) ==
  /\ Alive
  /\ Command \in DOMAIN CommandHandles
  /\ CommandHandles' = [c \in DOMAIN CommandHandles \ {Command} |->
                          CommandHandles[c]]
  /\ ReleaseGraph
  /\ ReleaseKernels(RefCount = 1, 1)
  /\ Result' = [op |-> "releaseCommand", code |-> SUCCESS]
  /\ UNCHANGED <<configVars, extraVars, recordVars, fenceVars, NumRetains, NumReleases,
                 submitVars, updateVars, deviceVars, threadVars>>

\* urCommandBufferGetInfoExp(UR_EXP_COMMAND_BUFFER_INFO_REFERENCE_COUNT)
urCommandBufferGetInfoExp == RefCount

\* ------------------------------------------------------------- recording
\* Spec: a caller records, finalizes, updates and releases one graph.
AppendCommand ==
  /\ CanRecord
  /\ \/ \E p \in BOOLEAN, wl \in WaitLists :
           enqueueCommandBufferMemCopyHelper(p, wl)
     \/ \E wl \in WaitLists, h \in BOOLEAN :
           urCommandBufferAppendKernelLaunchExp(1, FALSE, FALSE, wl, h)
     \/ \E wl \in WaitLists : urCommandBufferAppendUSMPrefetchExp(wl)

Next ==
  \/ AppendCommand
  \/ urCommandBufferFinalizeExp
  \/ \E c \in 0..(MaxCommands - 1) :
        urCommandBufferUpdateKernelLaunchExp(c, ArgUpdate)
  \/ urCommandBufferRetainExp
  \/ urCommandBufferReleaseExp
  \/ \E c \in 0..(MaxCommands - 1) : urCommandBufferReleaseCommandExp(c)

Spec == Init /\ [][Next]_vars

\* SpecAppend: a caller records into one graph of any kind, with wait-lists of
\* issued and never-issued ids, and finalizes it; the graph is not released.
NextAppend ==
  \/ AppendCommand
  \/ urCommandBufferFinalizeExp

SpecAppend == Init /\ [][NextAppend]_vars

\* ------------------------------------------------------------- submission
\* SpecSubmit: an updatable out-of-order graph on a device with a copy engine
\* is recorded, finalized once, enqueued without caller wait events, updated
\* and released while the device executes the submitted lists.
InitSubmit == Init /\ IsUpdatable /\ HasMainCopyEngine /\ ~IsInOrderCmdList

\* Wait on nothing or on the sync point issued last.
LatestWaitLists ==
  {<<>>} \cup (IF NextSyncPoint > 0 THEN {<<NextSyncPoint - 1>>} ELSE {})

RecordStep ==
  /\ ~IsFinalized
  /\ \/ /\ CanRecord
        /\ \E wl \in LatestWaitLists :
              urCommandBufferAppendKernelLaunchExp(1, FALSE, FALSE, wl, TRUE)
     \/ /\ CanRecord
        /\ \E wl \in LatestWaitLists :
              enqueueCommandBufferMemCopyHelper(TRUE, wl)
     \/ urCommandBufferFinalizeExp

DeviceStep ==
  \/ \E pq \in PhysicalQueues : DeviceSync(pq)
  \/ \E pq \in PhysicalQueues : DeviceBegin(pq)
  \/ \E pq \in PhysicalQueues : DeviceComplete(pq)

NextSubmit ==
  \/ RecordStep
  \/ \E q \in Queues : urCommandBufferEnqueueExp(q, FALSE, TRUE)
  \/ \E c \in 0..(MaxCommands - 1) :
        urCommandBufferUpdateKernelLaunchExp(c, ArgUpdate)
  \/ urCommandBufferReleaseExp
  \/ \E c \in 0..(MaxCommands - 1) : urCommandBufferReleaseCommandExp(c)
  \/ DeviceStep

SpecSubmit == InitSubmit /\ [][NextSubmit]_vars

\* ------------------------------------------------------------- updates
\* SpecUpdate: on any device, kernel launches with command handles are
\* recorded into an updatable out-of-order graph; the graph is finalized and
\* enqueued on one queue; between submissions the caller updates a command
\* with any descriptor.
InitUpdate ==
  /\ GraphInit
  /\ NoThreads
  /\ DefaultEngines
  /\ ReliableDriver
  /\ NoTracking
  /\ IsUpdatable /\ ~HasMainCopyEngine /\ ~IsInOrderCmdList
  /\ SupportedFeatures \in SUBSET MutableCommandFlags
  /\ ZeDriverGlobalOffsetExtensionFound \in BOOLEAN

RecordKernel ==
  /\ ~IsFinalized
  /\ CanRecord
  /\ Cardinality(DOMAIN CommandHandles) < MaxHandles
  /\ \E w \in WorkDims, l \in BOOLEAN :
        urCommandBufferAppendKernelLaunchExp(w, FALSE, l, <<>>, TRUE)

\* The caller, having waited for its submissions, makes its first update call
\* on a command: the arguments are on the stack, the call has not run yet.
CallUpdate(Command, CommandDesc) ==
  /\ Alive
  /\ Command \in DOMAIN CommandHandles
  /\ UpdateCalls = 0
  /\ \A pq \in PhysicalQueues : ~Busy(pq)
  /\ Pending' = UpdateArgs(Command, CommandDesc)
  /\ UNCHANGED <<configVars, extraVars, kernelVars, recordVars, fenceVars, lifeVars, submitVars,
                 MutationCount, UpdateCalls, LastUpdate, Result, deviceVars,
                 threadVars>>

\* The update call that has been made runs.
RunUpdate ==
  /\ Pending # NoCall
  /\ urCommandBufferUpdateKernelLaunchExp(Pending.Command, Pending.CommandDesc)

\* The calls of the host thread that is not inside an update call.
HostStep ==
  \/ RecordKernel
  \/ ~IsFinalized /\ urCommandBufferFinalizeExp
  \/ NumSubmissions < MaxUpdateEnqueues
     /\ urCommandBufferEnqueueExp(1, FALSE, TRUE)
  \/ \E c \in 0..(MaxHandles - 1), d \in UpdateDescs : CallUpdate(c, d)

NextUpdate ==
  \/ Pending = NoCall /\ HostStep
  \/ RunUpdate
  \/ DeviceStep

SpecUpdate == InitUpdate /\ [][NextUpdate]_vars

\* ------------------------------------------------------------- mutations
\* SpecMutate: kernels are recorded with command handles into an updatable
\* out-of-order graph on a device that supports every mutation; the graph is
\* finalized and enqueued once, and an update of any handle is called at any
\* time after the finalize, also while the submission runs. Each kernel waits on the one before it.
InitMutate == Init /\ IsUpdatable /\ ~HasMainCopyEngine /\ ~IsInOrderCmdList

\* Wait on the sync point issued last, if there is one.
ChainedWaitList == IF NextSyncPoint > 0 THEN <<NextSyncPoint - 1>> ELSE <<>>

\* The update descriptors of the calls: newWorkDim 0 or that of the kernels,
\* every combination of offset, local size and global size, and no argument
\* or argument 0.
MutateDescs ==
  [newWorkDim : {0, 1}, pNewGlobalWorkOffset : BOOLEAN,
   pNewLocalWorkSize : BOOLEAN, pNewGlobalWorkSize : BOOLEAN,
   newArgs : {{}, {0}}]

\* The caller makes an update call: the arguments are on the stack.
CallMutate(Command, CommandDesc) ==
  /\ Alive
  /\ Command \in DOMAIN CommandHandles
  /\ UpdateCalls < MaxUpdates
  /\ Pending' = UpdateArgs(Command, CommandDesc)
  /\ UNCHANGED <<configVars, extraVars, kernelVars, recordVars, fenceVars, lifeVars, submitVars,
                 MutationCount, UpdateCalls, LastUpdate, Result, deviceVars,
                 threadVars>>

NextMutate ==
  \/ /\ Pending = NoCall /\ ~IsFinalized /\ CanRecord
     /\ \E l \in BOOLEAN :
          urCommandBufferAppendKernelLaunchExp(1, FALSE, l, ChainedWaitList,
                                               TRUE)
  \/ Pending = NoCall /\ ~IsFinalized /\ urCommandBufferFinalizeExp
  \/ /\ Pending = NoCall /\ NumSubmissions = 0
     /\ urCommandBufferEnqueueExp(1, FALSE, FALSE)
  \/ /\ Pending = NoCall /\ IsFinalized
     /\ \E c \in 0..(MaxCommands - 1), d \in MutateDescs : CallMutate(c, d)
  \/ RunUpdate
  \/ DeviceStep

SpecMutate == InitMutate /\ [][NextMutate]_vars

\* ------------------------------------------------------------- fences
\* SpecFences: copies are recorded into an out-of-order graph on a device
\* with or without a copy engine; the graph is finalized and enqueued on any
\* of the queues while the device executes the submitted lists.
InitFences == Init /\ ~IsInOrderCmdList /\ ~IsUpdatable

NextFences ==
  \/ ~IsFinalized /\ CanRecord /\ enqueueCommandBufferMemCopyHelper(TRUE, <<>>)
  \/ ~IsFinalized /\ urCommandBufferFinalizeExp
  \/ \E q \in Queues : urCommandBufferEnqueueExp(q, FALSE, FALSE)
  \/ DeviceStep

SpecFences == InitFences /\ [][NextFences]_vars

\* ------------------------------------------------------- caller wait events
\* SpecWait: one copy is recorded into an out-of-order graph, the graph is
\* finalized and enqueued, with or without a caller wait event, on any of the
\* queues while the producers of the wait events and the device run.
InitWait == Init /\ ~IsInOrderCmdList /\ ~IsUpdatable

NextWait ==
  \/ /\ ~IsFinalized /\ CanRecord /\ NumRecorded = 0
     /\ \E p \in BOOLEAN : enqueueCommandBufferMemCopyHelper(p, <<>>)
  \/ ~IsFinalized /\ urCommandBufferFinalizeExp
  \/ \E q \in Queues, w \in BOOLEAN : urCommandBufferEnqueueExp(q, w, FALSE)
  \/ \E n \in 1..MaxEnqueues : SignalExternalEvent(n)
  \/ DeviceStep

SpecWait == InitWait /\ [][NextWait]_vars

\* ------------------------------------------------------------- enqueues
\* SpecEnqueue: the host calls alone. Copies are recorded into an out-of-order
\* graph at any time, the graph is finalized and enqueued with every
\* combination of caller wait event and output event; the device does not run,
\* so the queues show what each enqueue submitted, in order.
InitEnqueue == Init /\ ~IsInOrderCmdList /\ ~IsUpdatable

NextEnqueue ==
  \/ CanRecord /\ \E p \in BOOLEAN : enqueueCommandBufferMemCopyHelper(p, <<>>)
  \/ urCommandBufferFinalizeExp
  \/ \E q \in Queues, w \in BOOLEAN, e \in BOOLEAN :
       urCommandBufferEnqueueExp(q, w, e)

SpecEnqueue == InitEnqueue /\ [][NextEnqueue]_vars

\* ------------------------------------------------------------- sealing
\* SpecFinalize: copies are recorded into a graph of either ordering, on a
\* device with or without a copy engine, each waiting on nothing or on the
\* sync point issued last, and the graph is finalized at any time, also twice.
InitFinalize == Init /\ ~IsUpdatable

NextFinalize ==
  \/ CanRecord /\ \E p \in BOOLEAN, wl \in LatestWaitLists :
       enqueueCommandBufferMemCopyHelper(p, wl)
  \/ urCommandBufferFinalizeExp

SpecFinalize == InitFinalize /\ [][NextFinalize]_vars

\* ------------------------------------------------------------- fence faults
\* SpecFaults: the host calls alone, with a driver whose zeFenceCreate and
\* zeFenceReset can fail: copies are recorded into an out-of-order graph, the
\* graph is finalized and enqueued on any of the queues.
InitFaults ==
  /\ GraphInit
  /\ FullDevice
  /\ DefaultEngines
  /\ NoThreads
  /\ ZeFenceCallsCanFail = TRUE
  /\ NoTracking
  /\ ~IsInOrderCmdList /\ ~IsUpdatable

NextFaults ==
  \/ ~IsFinalized /\ CanRecord
     /\ \E p \in BOOLEAN : enqueueCommandBufferMemCopyHelper(p, <<>>)
  \/ ~IsFinalized /\ urCommandBufferFinalizeExp
  \/ \E q \in Queues : urCommandBufferEnqueueExp(q, FALSE, FALSE)

SpecFaults == InitFaults /\ [][NextFaults]_vars

\* ------------------------------------------------------------- dependencies
\* SpecDeps: the host calls alone: a graph of any kind is finalized and
\* enqueued on any of the queues, each time with or without a caller wait
\* event; the device does not run, so the queues show every wait barrier.
NextDeps ==
  \/ ~IsFinalized /\ urCommandBufferFinalizeExp
  \/ \E q \in Queues, w \in BOOLEAN : urCommandBufferEnqueueExp(q, w, FALSE)

SpecDeps == Init /\ [][NextDeps]_vars

\* ------------------------------------------------------------- wait-lists
\* SpecRecord: a caller records up to MaxAppends commands into an out-of-order
\* graph on a device with a copy engine, each with a wait-list of up to two
\* different sync-point ids, issued or not, in any order.
InitRecord == Init /\ ~IsInOrderCmdList /\ ~IsUpdatable /\ HasMainCopyEngine

LongWaitLists ==
  {<<>>} \cup {<<k>> : k \in 0..(MaxAppends - 1)}
  \cup {w \in (0..(MaxAppends - 1)) \X (0..(MaxAppends - 1)) : w[1] # w[2]}

CanAppend ==
  /\ NumRecorded < MaxAppends
  /\ NextSyncPoint < MaxAppends
  /\ Len(KernelsList) < MaxAppends

\* An append call with wait-list wl.
AppendWith(wl) ==
  \/ enqueueCommandBufferMemCopyHelper(TRUE, wl)
  \/ urCommandBufferAppendKernelLaunchExp(1, FALSE, FALSE, wl, FALSE)
  \/ urCommandBufferAppendUSMPrefetchExp(wl)

NextRecord == CanAppend /\ \E wl \in LongWaitLists : AppendWith(wl)

SpecRecord == InitRecord /\ [][NextRecord]_vars

\* ------------------------------------------------------------- engines
\* Every append entry point, on every kind of graph and device, with empty
\* wait-lists and no finalize: where each command is recorded.
PatternSizes == 0..MaxPatternSize

\* maxMemoryFillPatternSize values of the two queue groups.
FillLimits == {1, 2}

InitEngines ==
  /\ GraphInit
  /\ FullDevice
  /\ NoThreads
  /\ ~IsUpdatable
  /\ ReliableDriver
  /\ NoTracking
  /\ isDG2 \in BOOLEAN
  /\ UseCopyEngineForD2DCopy \in BOOLEAN
  /\ UseCopyEngineForFill \in BOOLEAN
  /\ QueueGroup \in [{"Compute", "MainCopy"} -> FillLimits]

NextEngines ==
  \/ CanRecord /\ \E Dst \in PointerKinds, Src \in PointerKinds :
       urCommandBufferAppendUSMMemcpyExp(Dst, Src, <<>>)
  \/ CanRecord /\ \E SrcOnHost \in BOOLEAN, DstOnHost \in BOOLEAN :
       urCommandBufferAppendMemBufferCopyExp(SrcOnHost, DstOnHost, <<>>)
  \/ CanRecord /\ \E SrcOnHost \in BOOLEAN, DstOnHost \in BOOLEAN :
       urCommandBufferAppendMemBufferCopyRectExp(SrcOnHost, DstOnHost, <<>>)
  \/ CanRecord /\ urCommandBufferAppendMemBufferWriteExp(<<>>)
  \/ CanRecord /\ urCommandBufferAppendMemBufferWriteRectExp(<<>>)
  \/ CanRecord /\ urCommandBufferAppendMemBufferReadExp(<<>>)
  \/ CanRecord /\ urCommandBufferAppendMemBufferReadRectExp(<<>>)
  \/ CanRecord /\ \E PatternSize \in PatternSizes :
       urCommandBufferAppendMemBufferFillExp(PatternSize, <<>>)
  \/ CanRecord /\ \E PatternSize \in PatternSizes :
       urCommandBufferAppendUSMFillExp(PatternSize, <<>>)
  \/ CanRecord /\ urCommandBufferAppendKernelLaunchExp(1, FALSE, FALSE, <<>>, FALSE)
  \/ CanRecord /\ urCommandBufferAppendUSMPrefetchExp(<<>>)
  \/ CanRecord /\ urCommandBufferAppendUSMAdviseExp(<<>>)

SpecEngines == InitEngines /\ [][NextEngines]_vars

\* ------------------------------------------------------ launches and lifetime
\* Kernel-launch appends with every argument shape, graph retain and release
\* and command-handle release, on drivers with and without the global-offset
\* extension.
InitLife ==
  /\ GraphInit
  /\ NoThreads
  /\ DefaultEngines
  /\ ReliableDriver
  /\ NoTracking
  /\ SupportedFeatures = MutableCommandFlags
  /\ ZeDriverGlobalOffsetExtensionFound \in BOOLEAN

\* The empty wait-list and one id, issued or not.
LaunchWaitLists == {<<>>, <<0>>}

LaunchAppend(HasGlobalWorkOffset, HasLocalWorkSize, SyncPointWaitList, WantCommand) ==
  /\ CanRecord
  /\ urCommandBufferAppendKernelLaunchExp(1, HasGlobalWorkOffset,
       HasLocalWorkSize, SyncPointWaitList, WantCommand)

NextLife ==
  \/ \E o \in BOOLEAN, l \in BOOLEAN, wl \in LaunchWaitLists, h \in BOOLEAN :
       LaunchAppend(o, l, wl, h)
  \/ urCommandBufferRetainExp
  \/ urCommandBufferReleaseExp
  \/ \E c \in DOMAIN CommandHandles : urCommandBufferReleaseCommandExp(c)

SpecLife == InitLife /\ [][NextLife]_vars

\* ------------------------------------------------ kernels recorded in a graph
\* One kernel whose arguments are set before and between appends, kernel
\* launches and fills recorded into one graph, and the graph's release, with
\* and without indirect access tracking.
InitKernel ==
  /\ GraphInit
  /\ ~IsInOrderCmdList
  /\ IsUpdatable
  /\ HasMainCopyEngine
  /\ SupportedFeatures = MutableCommandFlags
  /\ ZeDriverGlobalOffsetExtensionFound \in BOOLEAN
  /\ DefaultEngines
  /\ ReliableDriver
  /\ NoThreads
  /\ IndirectAccessTrackingEnabled \in BOOLEAN

\* The argument indices a caller sets: those of the kernel and one past them.
PendingIndices == 0..NumArgs

\* The specifications stop appending kernel launches once more than
\* MaxPendingArgs arguments were applied.
CanFlush == NumApplied(NumArgs) <= MaxPendingArgs

\* A pattern one engine takes and a pattern that exceeds both maxima.
KernelFillPatterns == {1, MaxPatternSize}

NextKernel ==
  \/ \E ArgIndex \in PendingIndices : urKernelSetArg(ArgIndex)
  \/ CanFlush /\ \E o \in BOOLEAN, wl \in LaunchWaitLists, h \in BOOLEAN :
       LaunchAppend(o, FALSE, wl, h)
  \/ CanRecord /\ \E PatternSize \in KernelFillPatterns :
       urCommandBufferAppendUSMFillExp(PatternSize, <<>>)
  \/ urCommandBufferReleaseExp
  \/ \E c \in DOMAIN CommandHandles : urCommandBufferReleaseCommandExp(c)

SpecKernel == InitKernel /\ [][NextKernel]_vars

\* Arguments set on one kernel and kernel launches of it recorded into one
\* graph.
InitArgs ==
  /\ GraphInit
  /\ ~IsInOrderCmdList
  /\ ~IsUpdatable
  /\ HasMainCopyEngine
  /\ SupportedFeatures = MutableCommandFlags
  /\ ZeDriverGlobalOffsetExtensionFound \in BOOLEAN
  /\ DefaultEngines
  /\ ReliableDriver
  /\ NoTracking
  /\ NoThreads

NextArgs ==
  \/ \E ArgIndex \in PendingIndices : urKernelSetArg(ArgIndex)
  \/ CanFlush /\ \E o \in BOOLEAN, wl \in LaunchWaitLists :
       LaunchAppend(o, FALSE, wl, FALSE)

SpecArgs == InitArgs /\ [][NextArgs]_vars

\* --------------------------------------------- by-value argument rewrites
\* sizeof(void *) on the 64-bit targets of the adapter.
PointerSize == 8

\* The values a byte of an argument takes here: zero and one that is not.
ByteValues == {0, 1}

ArgSizes == 1..MaxArgSize

\* The memory pNewValueArg points to: argSize bytes.
ValuesOfSize(argSize) == [1..argSize -> ByteValues]

\* ur_exp_command_buffer_update_value_arg_desc_t: pNewValueArg is null or
\* points to argSize bytes; a pointer is written as the bytes it points to.
ValueArgDescs ==
  {[argIndex |-> 0, argSize |-> n, pNewValueArg |-> p] :
     n \in ArgSizes, p \in {nullptr}}
  \cup UNION {{[argIndex |-> 0, argSize |-> n, pNewValueArg |-> p] :
                 p \in ValuesOfSize(n)} : n \in ArgSizes}

\* *(void **)ArgValuePtr == nullptr: the sizeof(void *) bytes at the pointer
\* are those of a null pointer.
PointsToNull(ArgValuePtr) ==
  \A i \in 1..PointerSize :
     i \in DOMAIN ArgValuePtr => ArgValuePtr[i] = 0

ArgValuePtr_anySize(Desc) ==
  IF Desc.pNewValueArg # nullptr /\ PointsToNull(Desc.pNewValueArg)
  THEN nullptr ELSE Desc.pNewValueArg

\* updateKernelCommand, the pArgValue of a by-value argument rewrite.
ArgValuePtr(Desc) ==
  IF Desc.argSize = PointerSize /\ Desc.pNewValueArg # nullptr
     /\ PointsToNull(Desc.pNewValueArg)
  THEN nullptr ELSE Desc.pNewValueArg

\* updateKernelCommand, one pass of the loop over pNewValueArgList: the
\* ze_mutable_kernel_argument_exp_desc_t built for the rewrite.
TranslateValueArg ==
  /\ ZeMutableArgDesc = <<>>
  /\ ZeMutableArgDesc' =
       <<[argIndex |-> NewValueArgDesc[1].argIndex,
          argSize |-> NewValueArgDesc[1].argSize,
          pArgValue |-> ArgValuePtr(NewValueArgDesc[1])]>>
  /\ UNCHANGED <<configVars, NewValueArgDesc, providerVars, cacheVars,
                 kernelVars, recordVars, fenceVars, lifeVars, submitVars,
                 updateVars, Result, deviceVars, threadVars>>

\* The graph and device settings of the specifications that record nothing.
IdleGraph ==
  /\ GraphState
  /\ ~IsInOrderCmdList
  /\ IsUpdatable
  /\ HasMainCopyEngine
  /\ FullDevice
  /\ DefaultEngines
  /\ ReliableDriver
  /\ NoTracking
  /\ NoThreads

InitValueArg ==
  /\ IdleGraph
  /\ NewValueArgDesc \in {<<Desc>> : Desc \in ValueArgDescs}
  /\ ZeMutableArgDesc = <<>>
  /\ NoProvider
  /\ NoCache

NextValueArg == TranslateValueArg

SpecValueArg == InitValueArg /\ [][NextValueArg]_vars

\* ------------------------------------------------------ v2 event providers
\* The event handles of provider pool id: zeEventCreate with desc.index = i.
EventsOf(id) == {<<id, i>> : i \in 0..(EVENTS_BURST - 1)}

EventHandles == UNION {EventsOf(id) : id \in 1..MaxPools}

\* provider_pool::provider_pool: the id-th pool the provider creates, its
\* freelist holding the EVENTS_BURST events in the order of their index.
provider_pool(id) ==
  [id |-> id, freelist |-> [i \in 1..EVENTS_BURST |-> <<id, i - 1>>]]

\* provider_pool::nfree
nfree(pool) == Len(pool.freelist)

provider_pool_allocate_front(pool) ==
  [event |-> Head(pool.freelist),
   pool |-> [pool EXCEPT !.freelist = Tail(@)]]

\* provider_pool::allocate on a pool whose freelist is not empty: the event at
\* the back of the freelist and the pool without it.
provider_pool_allocate(pool) ==
  [event |-> pool.freelist[Len(pool.freelist)],
   pool |-> [pool EXCEPT !.freelist = SubSeq(@, 1, Len(@) - 1)]]

\* The orders std::sort may leave the pools in: ascending in nfree, pools with
\* equal nfree in any order.
SortedPools(ps) ==
  {[i \in 1..Len(ps) |-> ps[f[i]]] :
     f \in {g \in [1..Len(ps) -> 1..Len(ps)] :
              /\ \A i, j \in 1..Len(ps) : i # j => g[i] # g[j]
              /\ \A i, j \in 1..Len(ps) :
                   i < j => nfree(ps[g[i]]) <= nfree(ps[g[j]])}}

\* The tail of provider_normal::allocate: the event is taken from the pool at
\* the back of ps and lent to the caller.
LendFromBack(ps) ==
  LET a == provider_pool_allocate(ps[Len(ps)])
  IN /\ pools' = [ps EXCEPT ![Len(ps)] = a.pool]
     /\ Lent' = [Lent EXCEPT ![a.event] = @ + 1]
     /\ LastEvent' = <<[op |-> "allocate", event |-> a.event]>>

provider_normal_allocate_sortsFirst ==
  /\ LET first == IF pools = <<>> THEN <<provider_pool(1)>> ELSE pools
     IN \E sorted \in SortedPools(first) :
          IF nfree(sorted[Len(sorted)]) > 0
          THEN LendFromBack(sorted)
          ELSE /\ Len(sorted) < MaxPools
               /\ LendFromBack(Append(sorted, provider_pool(Len(sorted) + 1)))
  /\ UNCHANGED <<configVars, argVars, cacheVars, kernelVars, recordVars,
                 fenceVars, lifeVars, submitVars, updateVars, Result,
                 deviceVars, threadVars>>

\* provider_normal::allocate: the pool at the back is tried first; when it is
\* empty the pools are sorted and the back is tried again; when that is empty
\* too a pool is created and the call starts over, finding the new pool at the
\* back.
provider_normal_allocate ==
  /\ LET first == IF pools = <<>> THEN <<provider_pool(1)>> ELSE pools
     IN IF nfree(first[Len(first)]) > 0
        THEN LendFromBack(first)
        ELSE \E sorted \in SortedPools(first) :
               IF nfree(sorted[Len(sorted)]) > 0
               THEN LendFromBack(sorted)
               ELSE /\ Len(sorted) < MaxPools
                    /\ LendFromBack(
                         Append(sorted, provider_pool(Len(sorted) + 1)))
  /\ UNCHANGED <<configVars, argVars, cacheVars, kernelVars, recordVars,
                 fenceVars, lifeVars, submitVars, updateVars, Result,
                 deviceVars, threadVars>>

\* The deleter of an event_borrowed: the event goes to the back of the
\* freelist of the pool it was allocated from.
event_borrowed_delete(event) ==
  /\ Lent[event] > 0
  /\ pools' = [i \in 1..Len(pools) |->
                 IF pools[i].id = event[1]
                 THEN [pools[i] EXCEPT !.freelist = Append(@, event)]
                 ELSE pools[i]]
  /\ Lent' = [Lent EXCEPT ![event] = @ - 1]
  /\ LastEvent' = <<[op |-> "free", event |-> event]>>
  /\ UNCHANGED <<configVars, argVars, cacheVars, kernelVars, recordVars,
                 fenceVars, lifeVars, submitVars, updateVars, Result,
                 deviceVars, threadVars>>

InitProvider ==
  /\ IdleGraph
  /\ NoValueArg
  /\ NoCache
  /\ pools = <<>>
  /\ Lent = [event \in EventHandles |-> 0]
  /\ LastEvent = <<>>

NextProvider ==
  \/ provider_normal_allocate
  \/ \E event \in EventHandles : event_borrowed_delete(event)

SpecProvider == InitProvider /\ [][NextProvider]_vars

\* ------------------------------------------------- ur_event_pool_cache
\* The host threads.
Threads == 1..NumThreads

\* The value of a pointer that was never initialized and is not null.
Wild == -1

\* Where a thread stands in allocate_index_in_pool, its local pool, and the
\* number of calls it has made.
Idle == [at |-> "idle", pool |-> NULL, calls |-> 0]

CacheUnchanged ==
  UNCHANGED <<configVars, argVars, providerVars, kernelVars, recordVars,
              fenceVars, lifeVars, submitVars, updateVars, Result, deviceVars,
              threadVars>>

\* A thread calls allocate_index_in_pool.
CacheCall(t) ==
  /\ call[t].at = "idle"
  /\ call[t].calls < MaxCacheCalls
  /\ call' = [call EXCEPT ![t].at = "load", ![t].calls = @ + 1]
  /\ UNCHANGED <<active, full, lock, available, Returned>>
  /\ CacheUnchanged

\* auto pool = active.load(...); also where each recursive call starts.
CacheLoad(t) ==
  /\ call[t].at = "load"
  /\ call' = [call EXCEPT ![t].pool = active,
                          ![t].at = IF active = NULL THEN "lock" ELSE "alloc"]
  /\ UNCHANGED <<active, full, lock, available, Returned>>
  /\ CacheUnchanged

\* lock.lock() of the branch that finds no active pool.
CacheLock(t) ==
  /\ call[t].at = "lock"
  /\ lock = NULL
  /\ lock' = t
  /\ call' = [call EXCEPT ![t].at = "recheck"]
  /\ UNCHANGED <<active, full, available, Returned>>
  /\ CacheUnchanged

\* The second load under the lock: another thread has installed a pool
\* (unlock and start over) or this thread creates one and installs it.
\* poolCreate sets available to the capacity of the new pool.
CacheCreate(t) ==
  /\ call[t].at = "recheck"
  /\ IF active # NULL
     THEN UNCHANGED <<active, available>>
     ELSE /\ available' = Append(available, PoolCapacity)
          /\ active' = Len(available) + 1
  /\ lock' = NULL
  /\ call' = [call EXCEPT ![t].at = "load", ![t].pool = active]
  /\ UNCHANGED <<full, Returned>>
  /\ CacheUnchanged

CacheReturn(t, index, pool) ==
  /\ Returned' = Returned \cup {[thread |-> t, call |-> call[t].calls,
                                 index |-> index, pool |-> pool]}
  /\ call' = [call EXCEPT ![t].at = "idle", ![t].pool = NULL]

allocate_index_noSub(pool) ==
  [n |-> available[pool] - 1, available |-> available]

\* ur_event_pool::allocate_index: n = available.fetch_sub(1) - 1; the index is
\* n when n > 0.
allocate_index(pool) ==
  [n |-> available[pool] - 1,
   available |-> [available EXCEPT ![pool] = @ - 1]]

\* pool->allocate_index() and the return of the descriptor. Through a pointer
\* that was never initialized the call has undefined behaviour: it crashes,
\* returns any index, or finds the pool exhausted.
CacheAllocate(t) ==
  /\ call[t].at = "alloc"
  /\ IF call[t].pool = Wild
     THEN /\ \/ /\ call' = [call EXCEPT ![t].at = "crashed"]
                /\ UNCHANGED Returned
             \/ \E index \in 0..PoolCapacity :
                  CacheReturn(t, index, Wild)
             \/ /\ call' = [call EXCEPT ![t].at = "cas"]
                /\ UNCHANGED Returned
          /\ UNCHANGED available
     ELSE LET a == allocate_index(call[t].pool)
          IN /\ available' = a.available
             /\ IF a.n > 0
                THEN CacheReturn(t, a.n, call[t].pool)
                ELSE /\ call' = [call EXCEPT ![t].at = "cas"]
                     /\ UNCHANGED Returned
  /\ UNCHANGED <<active, full, lock>>
  /\ CacheUnchanged

\* active.compare_exchange_strong(pool, nullptr): the thread that takes the
\* exhausted pool out of active goes on to move it to the full list.
CacheExchange(t) ==
  /\ call[t].at = "cas"
  /\ IF active = call[t].pool
     THEN /\ active' = NULL
          /\ call' = [call EXCEPT ![t].at = "lockFull"]
     ELSE /\ UNCHANGED active
          /\ call' = [call EXCEPT ![t].at = "load"]
  /\ UNCHANGED <<full, lock, available, Returned>>
  /\ CacheUnchanged

\* std::unique_lock Lock(lock)
CacheLockFull(t) ==
  /\ call[t].at = "lockFull"
  /\ lock = NULL
  /\ lock' = t
  /\ call' = [call EXCEPT ![t].at = "push"]
  /\ UNCHANGED <<active, full, available, Returned>>
  /\ CacheUnchanged

\* full.push_back(pool) and the release of the lock at the end of the scope.
CachePush(t) ==
  /\ call[t].at = "push"
  /\ full' = Append(full, call[t].pool)
  /\ lock' = NULL
  /\ call' = [call EXCEPT ![t].at = "load"]
  /\ UNCHANGED <<active, available, Returned>>
  /\ CacheUnchanged

\* One step of thread t inside or into allocate_index_in_pool.
CacheStep(t) ==
  \/ CacheCall(t)
  \/ CacheLoad(t)
  \/ CacheLock(t)
  \/ CacheCreate(t)
  \/ CacheAllocate(t)
  \/ CacheExchange(t)
  \/ CacheLockFull(t)
  \/ CachePush(t)

\* ur_event_pool_cache() {} leaves the std::atomic member active without a
\* value: what the first load reads is null or anything else.
InitCache ==
  /\ IdleGraph
  /\ NoValueArg
  /\ NoProvider
  /\ active \in {NULL, Wild}
  /\ full = <<>>
  /\ lock = NULL
  /\ available = <<>>
  /\ call = [t \in Threads |-> Idle]
  /\ Returned = {}

NextCache ==
  \/ \E t \in Threads : CacheCall(t)
  \/ \E t \in Threads : CacheLoad(t)
  \/ \E t \in Threads : CacheLock(t)
  \/ \E t \in Threads : CacheCreate(t)
  \/ \E t \in Threads : CacheAllocate(t)
  \/ \E t \in Threads : CacheExchange(t)
  \/ \E t \in Threads : CacheLockFull(t)
  \/ \E t \in Threads : CachePush(t)

\* Every thread keeps being scheduled.
CacheFairness == \A t \in Threads : WF_vars(CacheStep(t))

SpecCache == InitCache /\ [][NextCache]_vars /\ CacheFairness

\* The cache of a build whose std::atomic default constructor stores null.
InitCacheNull == InitCache /\ active = NULL

SpecCacheNull == InitCacheNull /\ [][NextCache]_vars /\ CacheFairness


\* ------------------------------------------------------------- host threads
\* SpecThreads: host threads call into one graph, one kernel (with its
\* program), one command handle and one queue. A call is split at its lock
\* acquisitions; its body is the part that reads and writes the graph.

\* The mutexes a call passes to its std::scoped_lock, in argument order.
LockList(op) ==
  CASE op = "launch" -> <<"Kernel", "Program", "CommandBuffer">>
    [] op = "update" -> <<"Command", "CommandBuffer", "Kernel">>
    [] op = "finalize" -> <<"CommandBuffer">>
    [] op = "enqueue" -> <<"Queue">>
    [] op = "memcpy" -> <<>>

Ops == {"launch", "update", "finalize", "enqueue", "memcpy"}

HeldByOther(t, m) == \E u \in Threads \ {t} : m \in held[u]

\* The mutex thread t acquires next: std::lock starts at index lockIdx and
\* goes round the list.
NextMutex(t) ==
  LET l == LockList(pc[t].op) IN
  l[((lockIdx[t] + lockCnt[t]) % Len(l)) + 1]

InitThreads ==
  /\ GraphInit
  /\ FullDevice
  /\ DefaultEngines
  /\ ReliableDriver
  /\ NoTracking
  /\ IsUpdatable /\ HasMainCopyEngine /\ ~IsInOrderCmdList
  /\ pc = [t \in Threads |-> [op |-> "none", at |-> "idle"]]
  /\ held = [t \in Threads |-> {}]
  /\ lockIdx = [t \in Threads |-> 0]
  /\ lockCnt = [t \in Threads |-> 0]

\* A thread enters a call.
Call(t, op) ==
  /\ pc[t].at = "idle"
  /\ pc' = [pc EXCEPT ![t] = [op |-> op,
                              at |-> IF Len(LockList(op)) = 0 THEN "body"
                                     ELSE "lock"]]
  /\ lockIdx' = [lockIdx EXCEPT ![t] = 0]
  /\ lockCnt' = [lockCnt EXCEPT ![t] = 0]
  /\ UNCHANGED <<held, configVars, extraVars, kernelVars, recordVars, fenceVars, lifeVars, submitVars,
                 updateVars, Result, deviceVars>>

\* A mutant of the locking: the mutexes are locked one after another in
\* argument order, each with a blocking lock.
scoped_lock_in_order(t) ==
  /\ pc[t].at = "lock"
  /\ ~HeldByOther(t, NextMutex(t))
  /\ held' = [held EXCEPT ![t] = @ \cup {NextMutex(t)}]
  /\ lockCnt' = [lockCnt EXCEPT ![t] = @ + 1]
  /\ pc' = IF lockCnt[t] + 1 = Len(LockList(pc[t].op))
           THEN [pc EXCEPT ![t].at = "body"] ELSE pc
  /\ UNCHANGED <<lockIdx, configVars, extraVars, kernelVars, recordVars, fenceVars, lifeVars,
                 submitVars, updateVars, Result, deviceVars>>

\* One step of std::scoped_lock (std::lock): block on the first mutex while
\* holding none; try_lock each further mutex; when a try_lock fails, unlock
\* everything and start again from the mutex that could not be locked.
scoped_lock(t) ==
  /\ pc[t].at = "lock"
  /\ IF lockCnt[t] = 0
     THEN /\ ~HeldByOther(t, NextMutex(t))
          /\ held' = [held EXCEPT ![t] = {NextMutex(t)}]
          /\ lockCnt' = [lockCnt EXCEPT ![t] = 1]
          /\ lockIdx' = lockIdx
          /\ pc' = IF Len(LockList(pc[t].op)) = 1
                   THEN [pc EXCEPT ![t].at = "body"] ELSE pc
     ELSE IF ~HeldByOther(t, NextMutex(t))
          THEN /\ held' = [held EXCEPT ![t] = @ \cup {NextMutex(t)}]
               /\ lockCnt' = [lockCnt EXCEPT ![t] = @ + 1]
               /\ lockIdx' = lockIdx
               /\ pc' = IF lockCnt[t] + 1 = Len(LockList(pc[t].op))
                        THEN [pc EXCEPT ![t].at = "body"] ELSE pc
          ELSE /\ held' = [held EXCEPT ![t] = {}]
               /\ lockIdx' = [lockIdx EXCEPT ![t] =
                                (@ + lockCnt[t]) % Len(LockList(pc[t].op))]
               /\ lockCnt' = [lockCnt EXCEPT ![t] = 0]
               /\ pc' = pc
  /\ UNCHANGED <<configVars, extraVars, kernelVars, recordVars, fenceVars, lifeVars, submitVars,
                 updateVars, Result, deviceVars>>

\* The call returns: the scoped_lock goes out of scope.
Return(t) ==
  /\ pc[t].at = "body"
  /\ pc' = [pc EXCEPT ![t] = [op |-> "none", at |-> "idle"]]
  /\ held' = [held EXCEPT ![t] = {}]
  /\ lockIdx' = [lockIdx EXCEPT ![t] = 0]
  /\ lockCnt' = [lockCnt EXCEPT ![t] = 0]
  /\ UNCHANGED <<configVars, extraVars, kernelVars, recordVars, fenceVars, lifeVars, submitVars,
                 updateVars, Result, deviceVars>>

NextThreads ==
  \/ \E t \in Threads, op \in Ops : Call(t, op)
  \/ \E t \in Threads : scoped_lock(t)
  \/ \E t \in Threads : Return(t)

SpecThreads == InitThreads /\ [][NextThreads]_vars

\* ================================================================ claims
RecordedCmds ==
  {ZeComputeCommandList[i] : i \in RecordedIn(ZeComputeCommandList)}
  \cup {ZeCopyCommandList[i] : i \in RecordedIn(ZeCopyCommandList)}

Submissions == 1..NumSubmissions

Queued(lists, n) ==
  \E pq \in PhysicalQueues : \E i \in 1..Len(DeviceQueue[pq]) :
     DeviceQueue[pq][i].list \in lists /\ DeviceQueue[pq][i].sub = n

\* C1: in every submission of an out-of-order graph, a command that has begun
\* executing has, for each sync point of its wait-list, the producer of that
\* sync point completed in the same submission.
C1_WaitsForProducer ==
  \A b \in Began : \A c \in RecordedCmds :
     c.seq = b[2] =>
        \A k \in Range(c.deps) : \A p \in RecordedCmds :
           p.sp = k => <<b[1], p.seq>> \in Finished

\* A sync-point event or the completion event is signaled although submission
\* n has not signaled it: the signal comes from another submission.
StaleFor(n) ==
  \/ \E c \in RecordedCmds :
        c.signal \in Signaled /\ <<n, c.seq>> \notin Finished
  \/ SignalEvent \in Signaled /\ Queued({"compute"}, n)

\* C2: when a recorded command of a submission begins, no sync-point event
\* and not the completion event is still signaled from another submission:
\* all of them have been reset.
C2_ResetBeforeCommands ==
  [][\A b \in Began' \ Began : ~StaleFor(b[1])]_vars

\* C3: the completion event returned by an enqueue is signaled only after
\* every recorded command has completed in that submission.
C3_UserEventAfterAllCommands ==
  \A n \in Submissions :
     UserEvent(n) \in Signaled =>
        \A c \in RecordedCmds : <<n, c.seq>> \in Finished

\* C4: a submission never stalls: whenever the device can take no step, every
\* submitted list has run to completion and every returned completion event
\* is signaled.
C4_NoSubmissionStalls ==
  (~ENABLED DeviceStep) =>
     /\ \A pq \in PhysicalQueues : ~Busy(pq)
     /\ \A n \in Submissions : UserEvent(n) \in Signaled

\* C5: an append call on a finalized graph fails with the invalid-operation
\* result, records no native command and creates no sync point.
C5_AppendAfterFinalizeRejected ==
  [][(IsFinalized /\ AppendCommand) =>
        /\ Result'.code = INVALID_OPERATION
        /\ UNCHANGED <<ZeComputeCommandList, ZeCopyCommandList, SyncPoints,
                       NextSyncPoint, ZeEventsList>>]_vars

\* C6: a second finalize fails with the invalid-operation result and appends
\* nothing to the compute list or the reset-events list.
C6_SecondFinalizeRejected ==
  [][(IsFinalized /\ urCommandBufferFinalizeExp) =>
        /\ Result'.code = INVALID_OPERATION
        /\ UNCHANGED <<ZeComputeCommandList, ZeCommandListResetEvents>>]_vars

\* C7: the device mutation call is made only when no submission of the graph
\* still holds the compute list on a physical queue.
C7_NoMutationInFlight ==
  [][MutationCount' # MutationCount => ~InFlight({"compute"})]_vars

\* C8: the graph's resources are destroyed at most once, exactly when the
\* reference count is zero, and never while a list of the graph is still on a
\* physical queue.
C8_DestroyedOnceWhenIdle ==
  /\ Destroyed <= 1
  /\ Destroyed = 1 <=> RefCount = 0
  /\ Destroyed = 1 => ~InFlight(GraphLists)

\* C9: at most one append, finalize, enqueue or update call is inside its body
\* at a time, and a call inside its body holds the graph's mutex.
C9_CallsSerializedByGraphLock ==
  /\ Cardinality({t \in Threads : pc[t].at = "body"}) <= 1
  /\ \A t \in Threads : pc[t].at = "body" => "CommandBuffer" \in held[t]

\* C10: threads running kernel-launch appends and kernel-launch updates are
\* never all waiting for a mutex another thread holds.
LockWaiting(t) == pc[t].at = "lock" /\ ~ENABLED scoped_lock(t)
C10_NoDeadlock ==
  ~(\A t \in Threads : pc[t].op \in {"launch", "update"} /\ LockWaiting(t))

\* C10 witness: a launch holds the kernel mutex while an update holds the
\* graph mutex, each still acquiring the mutex the other one holds.
C10_Witness ==
  \E t \in Threads, u \in Threads :
     /\ pc[t].op = "launch" /\ pc[t].at = "lock" /\ "Kernel" \in held[t]
     /\ pc[u].op = "update" /\ pc[u].at = "lock"
     /\ "CommandBuffer" \in held[u]

\* ------------------------------------------------------ claims on updates
\* The update call that has been made runs in this step.
UpdateRuns == Pending # NoCall /\ Pending' = NoCall

\* The launch configuration of recorded command c in a compute list.
ConfigOf(list, c) ==
  LET i == CHOOSE j \in 1..Len(list) : list[j].seq = c IN list[i].cfg

\* The step rejects the update: no fence wait, no mutation descriptor, the
\* compute list as it was.
UpdateRejected ==
  /\ Result'.op = "update" /\ Result'.code # SUCCESS
  /\ ~LastUpdate'.fenceWaited
  /\ LastUpdate'.Descs = <<>>
  /\ UNCHANGED ZeComputeCommandList

\* C11 as stated: an update on a graph that is not updatable or not finalized
\* fails with the invalid-operation result, waits on no fence and mutates
\* nothing.
C11_UpdateNeedsFinalized ==
  [][(UpdateRuns /\ ~(IsUpdatable /\ IsFinalized)) =>
        /\ UpdateRejected
        /\ Result'.code = INVALID_OPERATION]_vars

\* C11 amended: such an update fails, waits on no fence and mutates nothing;
\* the result is invalid-operation when newWorkDim is at most 3 and
\* invalid-work-dimension when it is greater.
C11_UpdateNeedsFinalizedAmended ==
  [][(UpdateRuns /\ ~(IsUpdatable /\ IsFinalized)) =>
        /\ UpdateRejected
        /\ Result'.code = IF Pending.CommandDesc.newWorkDim <= 3
                          THEN INVALID_OPERATION
                          ELSE INVALID_WORK_DIMENSION]_vars

\* C11 witness: an update with a valid work dimension was rejected on a graph
\* that is updatable and not finalized.
C11_Witness ==
  /\ IsUpdatable /\ ~IsFinalized
  /\ UpdateCalls = 1
  /\ Result = [op |-> "update", code |-> INVALID_OPERATION]

\* The capability bit of a requested change is absent from the device's flags.
RequestsUnsupported(CommandDesc) ==
  \/ CommandDesc.pNewGlobalWorkOffset /\ GLOBAL_OFFSET \notin SupportedFeatures
  \/ CommandDesc.pNewLocalWorkSize /\ GROUP_SIZE \notin SupportedFeatures
  \/ CommandDesc.pNewGlobalWorkSize /\ GROUP_COUNT \notin SupportedFeatures
  \/ CommandDesc.newArgs # {} /\ KERNEL_ARGUMENTS \notin SupportedFeatures

\* The descriptor passes the checks made on a nonzero newWorkDim.
WorkDimAccepted(Command, CommandDesc) ==
  \/ CommandDesc.newWorkDim = 0
  \/ /\ CommandDesc.newWorkDim = CommandHandles[Command].WorkDim
     /\ CommandDesc.pNewLocalWorkSize => CommandDesc.pNewGlobalWorkSize
     /\ CommandDesc.pNewLocalWorkSize
          <=> CommandHandles[Command].UserDefinedLocalSize

\* A supported global offset is requested with a nonzero newWorkDim and the
\* driver lacks the global-offset extension.
OffsetWithoutExtension(CommandDesc) ==
  /\ CommandDesc.pNewGlobalWorkOffset /\ CommandDesc.newWorkDim > 0
  /\ GLOBAL_OFFSET \in SupportedFeatures
  /\ ~ZeDriverGlobalOffsetExtensionFound

\* C12 as stated, on a finalized updatable graph and for newWorkDim up to 3:
\* an update that requests a change whose capability bit is absent fails with
\* the unsupported-feature result before any fence wait or mutation, and the
\* command keeps its configuration.
C12_UnsupportedRejected ==
  [][(/\ UpdateRuns /\ IsUpdatable /\ IsFinalized
      /\ Pending.CommandDesc.newWorkDim <= 3
      /\ RequestsUnsupported(Pending.CommandDesc)) =>
        /\ UpdateRejected
        /\ Result'.code = UNSUPPORTED_FEATURE]_vars

\* C12 amended: such an update fails before any fence wait or mutation and the
\* command keeps its configuration; the result is unsupported-feature when
\* the graph is finalized, newWorkDim is at most 3, the descriptor passes the
\* work-dimension checks and no supported offset is requested on a driver
\* without the global-offset extension.
C12_UnsupportedRejectedAmended ==
  [][(UpdateRuns /\ RequestsUnsupported(Pending.CommandDesc)) =>
        /\ UpdateRejected
        /\ (/\ IsUpdatable /\ IsFinalized
            /\ Pending.CommandDesc.newWorkDim <= 3
            /\ WorkDimAccepted(Pending.Command, Pending.CommandDesc)
            /\ ~OffsetWithoutExtension(Pending.CommandDesc))
           => Result'.code = UNSUPPORTED_FEATURE]_vars

\* C12 witness: after a submission, with an active fence, an update was
\* rejected as unsupported and waited on no fence.
C12_Witness ==
  /\ ZeActiveFence # 0
  /\ UpdateCalls = 1
  /\ Result = [op |-> "update", code |-> UNSUPPORTED_FEATURE]
  /\ ~LastUpdate.fenceWaited

\* No handle's work dimension changes in the step.
WorkDimKept ==
  \A c \in DOMAIN CommandHandles \cap DOMAIN CommandHandles' :
     CommandHandles'[c].WorkDim = CommandHandles[c].WorkDim

\* The update's newWorkDim is nonzero and differs from the handle's WorkDim.
ChangesWorkDim ==
  /\ Pending.CommandDesc.newWorkDim # 0
  /\ Pending.CommandDesc.newWorkDim # CommandHandles[Pending.Command].WorkDim

\* C13 as stated: an update whose newWorkDim is nonzero and differs from the
\* handle's WorkDim is rejected with the invalid-operation result, and no step
\* alters a handle's WorkDim.
C13_WorkDimImmutable ==
  [][/\ WorkDimKept
     /\ (UpdateRuns /\ ChangesWorkDim) =>
           /\ UpdateRejected
           /\ Result'.code = INVALID_OPERATION]_vars

\* C13 amended: such an update is rejected, with the invalid-operation result
\* when newWorkDim is at most 3 and with the invalid-work-dimension result
\* when it is greater, and no step alters a handle's WorkDim.
C13_WorkDimImmutableAmended ==
  [][/\ WorkDimKept
     /\ (UpdateRuns /\ ChangesWorkDim) =>
           /\ UpdateRejected
           /\ Result'.code = IF Pending.CommandDesc.newWorkDim <= 3
                             THEN INVALID_OPERATION
                             ELSE INVALID_WORK_DIMENSION]_vars

\* C13 witness: on a finalized graph an update call with newWorkDim 2 has
\* been made on a handle created with WorkDim 3.
C13_Witness ==
  /\ IsFinalized
  /\ Pending # NoCall
  /\ Pending.CommandDesc.newWorkDim = 2
  /\ CommandHandles[Pending.Command].WorkDim = 3

\* The update gives a local size without a global size, or changes whether
\* the local size is user-specified.
BadLocalSize ==
  \/ /\ Pending.CommandDesc.pNewLocalWorkSize
     /\ ~Pending.CommandDesc.pNewGlobalWorkSize
  \/ Pending.CommandDesc.pNewLocalWorkSize
       # CommandHandles[Pending.Command].UserDefinedLocalSize

\* The update supplies a work size and, with it, a local size for a command
\* created without one, or none for a command created with one.
SuppliesToggledSize ==
  \/ /\ Pending.CommandDesc.pNewLocalWorkSize
     /\ ~Pending.CommandDesc.pNewGlobalWorkSize
  \/ /\ Pending.CommandDesc.pNewLocalWorkSize
     /\ ~CommandHandles[Pending.Command].UserDefinedLocalSize
  \/ /\ Pending.CommandDesc.pNewGlobalWorkSize
     /\ ~Pending.CommandDesc.pNewLocalWorkSize
     /\ CommandHandles[Pending.Command].UserDefinedLocalSize

\* C14 as stated: for every newWorkDim from 0 to 3, an update that supplies a
\* new local size and no new global size, or that supplies work sizes and
\* changes whether the local size is user-specified, is rejected and applies
\* no mutation.
C14_BadLocalSizeRejected ==
  [][(/\ UpdateRuns
      /\ Pending.CommandDesc.newWorkDim \in 0..3
      /\ SuppliesToggledSize) => UpdateRejected]_vars

\* The descriptors of the last update that change a work size or the offset.
SizeDescs(Descs) ==
  {i \in 1..Len(Descs) : Descs[i].type \in {"offset", "groupSize", "groupCount"}}

\* C14 amended: for every newWorkDim from 1 to 3 such an update is rejected
\* and applies no mutation; with newWorkDim 0 the update's offset and work
\* sizes are neither checked against these two rules nor applied.
C14_BadLocalSizeRejectedAmended ==
  [][/\ (/\ UpdateRuns
         /\ Pending.CommandDesc.newWorkDim \in 1..3
         /\ BadLocalSize) => UpdateRejected
     /\ (UpdateRuns /\ Pending.CommandDesc.newWorkDim = 0) =>
           /\ SizeDescs(LastUpdate'.Descs) = {}
           /\ \A i \in 1..Len(ZeComputeCommandList) :
                 /\ ZeComputeCommandList'[i].cfg.offset
                      = ZeComputeCommandList[i].cfg.offset
                 /\ ZeComputeCommandList'[i].cfg.groupSize
                      = ZeComputeCommandList[i].cfg.groupSize
                 /\ ZeComputeCommandList'[i].cfg.groupCount
                      = ZeComputeCommandList[i].cfg.groupCount]_vars

\* C14 witness: on a finalized graph and a device with every capability, an
\* update call with the handle's work dimension, a new local size and no new
\* global size has been made.
C14_Witness ==
  /\ IsFinalized
  /\ SupportedFeatures = MutableCommandFlags
  /\ Pending # NoCall
  /\ Pending.CommandDesc.newWorkDim = CommandHandles[Pending.Command].WorkDim
  /\ Pending.CommandDesc.pNewLocalWorkSize
  /\ ~Pending.CommandDesc.pNewGlobalWorkSize

\* The descriptors of the given type among Descs.
DescsOfType(Descs, type) == {Descs[i] : i \in {j \in 1..Len(Descs) :
                                                 Descs[j].type = type}}

\* The step hands the device a group-count descriptor and a group-size
\* descriptor whose size calculateKernelWorkDimensions computed.
RecomputesLocalSize ==
  /\ DescsOfType(LastUpdate'.Descs, "groupCount") # {}
  /\ \E g \in DescsOfType(LastUpdate'.Descs, "groupSize") :
        g.value[1] = "suggested"
  /\ ConfigOf(ZeComputeCommandList', CommandHandles[Pending.Command].CommandId).groupSize[1]
       = "suggested"

\* The step rewrites the arguments the update lists and no other: the
\* argument descriptors name the listed indices, every other argument of the
\* command keeps its value, and every other command keeps its configuration.
RewritesListedArgsOnly ==
  /\ {g.argIndex : g \in DescsOfType(LastUpdate'.Descs, "arg")}
       = Pending.CommandDesc.newArgs
  /\ \A i \in ArgIndices \ Pending.CommandDesc.newArgs :
        ConfigOf(ZeComputeCommandList', CommandHandles[Pending.Command].CommandId).args[i]
          = ConfigOf(ZeComputeCommandList, CommandHandles[Pending.Command].CommandId).args[i]
  /\ \A j \in 1..Len(ZeComputeCommandList) :
        ZeComputeCommandList[j].seq # CommandHandles[Pending.Command].CommandId
          => ZeComputeCommandList'[j] = ZeComputeCommandList[j]

\* The update that runs in this step succeeds.
UpdateSucceeds == UpdateRuns /\ Result'.code = SUCCESS

\* C15 as stated: a successful update with a new global size and no new local
\* size makes a group-count mutation and a group-size mutation with a
\* recomputed local size, and rewrites only the listed arguments.
C15_GlobalSizeRecomputesLocal ==
  [][(/\ UpdateSucceeds
      /\ Pending.CommandDesc.pNewGlobalWorkSize
      /\ ~Pending.CommandDesc.pNewLocalWorkSize) =>
        /\ RecomputesLocalSize
        /\ RewritesListedArgsOnly]_vars

\* C15 amended: the two size mutations are made when newWorkDim is not 0;
\* with newWorkDim 0 the new global size is not applied. In both cases only
\* the listed arguments are rewritten.
C15_GlobalSizeRecomputesLocalAmended ==
  [][(/\ UpdateSucceeds
      /\ Pending.CommandDesc.pNewGlobalWorkSize
      /\ ~Pending.CommandDesc.pNewLocalWorkSize) =>
        /\ Pending.CommandDesc.newWorkDim # 0 => RecomputesLocalSize
        /\ Pending.CommandDesc.newWorkDim = 0 =>
              SizeDescs(LastUpdate'.Descs) = {}
        /\ RewritesListedArgsOnly]_vars

\* C15 witness: a successful update made a group-count mutation, a group-size
\* mutation with a computed size and rewrote argument 0 but not argument 1.
C15_Witness ==
  /\ Result = [op |-> "update", code |-> SUCCESS]
  /\ DescsOfType(LastUpdate.Descs, "groupCount") # {}
  /\ \E g \in DescsOfType(LastUpdate.Descs, "groupSize") :
        g.value[1] = "suggested"
  /\ {g.argIndex : g \in DescsOfType(LastUpdate.Descs, "arg")} = {0}
  /\ \E i \in 1..Len(ZeComputeCommandList) :
        /\ ZeComputeCommandList[i].kind = "kernel"
        /\ ZeComputeCommandList[i].cfg.args[0] # Recorded
        /\ ZeComputeCommandList[i].cfg.args[1] = Recorded

\* -------------------------------------------------- claims on sync points
\* The step is an append call that returns success.
AppendSucceeds == AppendCommand /\ Result'.code = SUCCESS

\* The sync points issued so far.
Issued == DOMAIN SyncPoints

\* The step registers exactly one sync point, with an id above every id issued
\* before and an event that no earlier sync point has, and appends that event
\* to the tracked-event list.
RegistersOneSyncPoint ==
  \E sp \in Issued' \ Issued :
     /\ Issued' = Issued \cup {sp}
     /\ \A k \in Issued : sp > k /\ SyncPoints'[k] = SyncPoints[k]
     /\ SyncPoints'[sp] \notin Range(ZeEventsList)
     /\ ZeEventsList' = Append(ZeEventsList, SyncPoints'[sp])

\* C16: on a graph that is not in-order every successful append registers
\* exactly one new sync point, greater than every id issued before, with one
\* new event appended to the tracked-event list; an issued id keeps its event
\* and is never issued again; the number of tracked events, the number of
\* registered sync points and the next-sync-point counter are always equal.
C16_OneSyncPointPerAppend ==
  /\ [](/\ Len(ZeEventsList) = Cardinality(Issued)
        /\ Cardinality(Issued) = NextSyncPoint)
  /\ [][/\ (~IsInOrderCmdList /\ AppendSucceeds) => RegistersOneSyncPoint
        /\ \A k \in Issued : k \in Issued' /\ SyncPoints'[k] = SyncPoints[k]
        /\ \A k \in Issued' \ Issued : \A j \in Issued : k > j]_vars

\* C16 witness: two appends have succeeded on a graph that is not in-order;
\* sync points 0 and 1 are registered with different events.
C16_Witness ==
  /\ ~IsInOrderCmdList
  /\ Result = [op |-> "append", code |-> SUCCESS]
  /\ Issued = {0, 1}
  /\ SyncPoints[0] # SyncPoints[1]
  /\ Len(ZeEventsList) = 2

\* The native commands the step appends to a list.
Appended(list) == SubSeq(list', Len(list) + 1, Len(list'))

\* The wait events of a sequence of native commands, in order.
RECURSIVE WaitsOf(_)
WaitsOf(cmds) ==
  IF cmds = <<>> THEN <<>> ELSE Head(cmds).waits \o WaitsOf(Tail(cmds))

\* The wait events the step passes to the native commands it appends.
PassedEvents ==
  WaitsOf(Appended(ZeComputeCommandList)) \o WaitsOf(Appended(ZeCopyCommandList))

\* The step, an append with wait-list wl, resolves a wait-list of issued ids:
\* it is not rejected as an invalid dependency and, when it succeeds, it has
\* passed to its native commands exactly the events of those ids, in
\* wait-list order.
PassesEventsOf(wl) ==
  /\ Result'.code # INVALID_VALUE
  /\ Result'.code = SUCCESS =>
        PassedEvents = [i \in 1..Len(wl) |-> SyncPoints[wl[i]]]

\* C17 as stated: on a graph that is not in-order, an append whose wait-list
\* holds only issued ids passes to its native command exactly the events of
\* those ids, in wait-list order; an append whose wait-list holds an id that
\* was never issued fails with the invalid-value result.
C17_WaitListResolved ==
  [][\A wl \in LongWaitLists :
        (~IsInOrderCmdList /\ AppendWith(wl)) =>
           IF Range(wl) \subseteq Issued
           THEN PassesEventsOf(wl)
           ELSE Result'.code = INVALID_VALUE]_vars

\* C17 amended: as stated, except that a kernel launch whose work dimensions
\* cannot be calculated fails with that error before its wait-list is looked
\* at; every append with a never-issued id fails and appends no native
\* command.
C17_WaitListResolvedAmended ==
  [][\A wl \in LongWaitLists :
        (~IsInOrderCmdList /\ AppendWith(wl)) =>
           IF Range(wl) \subseteq Issued
           THEN PassesEventsOf(wl)
           ELSE /\ \/ Result'.code = INVALID_VALUE
                   \/ /\ urCommandBufferAppendKernelLaunchExp(1, FALSE, FALSE, wl,
                                                              FALSE)
                      /\ Result'.code = INVALID_WORK_GROUP_SIZE
                /\ UNCHANGED <<ZeComputeCommandList, ZeCopyCommandList>>]_vars

\* C17 witness: the third command of a graph that is not in-order waits on
\* the event of sync point 1 and then on the event of sync point 0.
C17_Witness ==
  /\ ~IsInOrderCmdList
  /\ Result = [op |-> "append", code |-> SUCCESS]
  /\ \E c \in RecordedCmds :
        /\ c.sp = 2
        /\ c.deps = <<1, 0>>
        /\ c.waits = <<SyncPoints[1], SyncPoints[0]>>
        /\ SyncPoints[1] # SyncPoints[0]

\* ------------------------------------------------- claims on in-order graphs
\* The recorded commands of a list, in list order.
RecordedSeq(list) == SelectSeq(list, LAMBDA c : c.kind \in RecordedKinds)

\* A recorded command without wait events, signal event and sync point.
Unsynchronized(c) == c.waits = <<>> /\ c.signal = NoEvent /\ c.sp = -1

\* C18: on an in-order graph the sync-point registry and the tracked-event
\* list stay empty, no recorded command has a sync point, wait events or a
\* signal event, the copy list holds no recorded command and the compute list
\* holds the recorded commands in append order; a successful append,
\* whatever its wait-list, adds its command at the end of the compute list.
C18_InOrderNeedsNoSyncPoints ==
  /\ [](IsInOrderCmdList =>
          /\ SyncPoints = <<>> /\ ZeEventsList = <<>> /\ NextSyncPoint = 0
          /\ RecordedSeq(ZeCopyCommandList) = <<>>
          /\ LET cmds == RecordedSeq(ZeComputeCommandList)
             IN \A i \in 1..Len(cmds) :
                   Unsynchronized(cmds[i]) /\ cmds[i].seq = i - 1)
  /\ [][(IsInOrderCmdList /\ AppendSucceeds) =>
          /\ Len(RecordedSeq(Appended(ZeComputeCommandList))) = 1
          /\ \A i \in 1..Len(Appended(ZeComputeCommandList)) :
                Appended(ZeComputeCommandList)[i].waits = <<>>
                /\ Appended(ZeComputeCommandList)[i].signal = NoEvent
          /\ UNCHANGED ZeCopyCommandList]_vars

\* C18 witness: an in-order graph on a device with a copy engine holds a copy
\* and then a kernel launch in its compute list.
C18_Witness ==
  /\ IsInOrderCmdList /\ HasMainCopyEngine
  /\ Result = [op |-> "append", code |-> SUCCESS]
  /\ LET cmds == RecordedSeq(ZeComputeCommandList)
     IN /\ Len(cmds) = 2
        /\ cmds[1].kind = "memcpy" /\ cmds[2].kind = "kernel"
        /\ Unsynchronized(cmds[1]) /\ Unsynchronized(cmds[2])

\* ------------------------------------------------------- claims on fences
\* The step is an enqueue call.
Enqueues == NumSubmissions' = NumSubmissions + 1

\* The step's enqueue creates the fence of its queue on the first submission
\* to that queue and resets and reuses it on a later one: either way the
\* fence is the active one and not signaled.
CreatesOrReusesFence ==
  /\ ZeActiveFence' \notin FenceSignaled'
  /\ ZeFencesMap' = ZeFencesMap \cup {ZeActiveFence'}
  /\ NumFencesCreated' = IF ZeActiveFence' \in ZeFencesMap
                         THEN NumFencesCreated ELSE NumFencesCreated + 1

\* The physical queues whose fence the table holds.
FencedQueues == {ComputeQueue(q) : q \in ZeFencesMap}

C20_FlagTracksCopyList ==
  /\ [](MCopyCommandListEmpty <=> RecordedSeq(ZeCopyCommandList) = <<>>)
  /\ [][/\ ~MCopyCommandListEmpty => ~MCopyCommandListEmpty'
        /\ (MCopyCommandListEmpty /\ ~MCopyCommandListEmpty') =>
              /\ RecordedSeq(Appended(ZeCopyCommandList)) # <<>>
              /\ UNCHANGED ZeComputeCommandList]_vars

\* ------------------------------------------------ claims on engine choice
\* The graph records into the compute list only.
ComputeOnly == IsInOrderCmdList \/ ~useCopyEngine

NumRecordedIn(list) == Cardinality(RecordedIn(list))

\* The step records one command into the compute list and none into the
\* copy list.
RecordsIntoCompute ==
  /\ NumRecordedIn(ZeComputeCommandList') = NumRecordedIn(ZeComputeCommandList) + 1
  /\ ZeCopyCommandList' = ZeCopyCommandList

\* The step records one command into the copy list and none into the
\* compute list.
RecordsIntoCopy ==
  /\ NumRecordedIn(ZeCopyCommandList') = NumRecordedIn(ZeCopyCommandList) + 1
  /\ ZeComputeCommandList' = ZeComputeCommandList

\* C21: if the graph is in-order or the device has no copy engine, every
\* appended command of every kind is recorded into the compute list, whatever
\* copy-engine preference the command computed, and the copy-list-empty flag
\* stays true.
C21_ComputeListOnly ==
  /\ [](ComputeOnly => /\ MCopyCommandListEmpty
                       /\ RecordedIn(ZeCopyCommandList) = {})
  /\ [][ComputeOnly /\ NextEngines /\ Result'.code = SUCCESS
        => RecordsIntoCompute /\ MCopyCommandListEmpty']_vars

\* An in-order graph on a device with a copy engine whose copy engine takes
\* every pattern size the compute engine takes, with the fill override set,
\* holds a fill, which asked for the copy engine, in its compute list.
C21_Witness ==
  /\ IsInOrderCmdList /\ useCopyEngine /\ UseCopyEngineForFill
  /\ QueueGroup.Compute <= QueueGroup.MainCopy
  /\ \E i \in RecordedIn(ZeComputeCommandList) :
       ZeComputeCommandList[i].kind = "fill"
  /\ MCopyCommandListEmpty
  /\ Result = [op |-> "append", code |-> SUCCESS]

\* A fill append (buffer or USM) with pattern size PatternSize.
FillAppend(PatternSize) ==
  /\ CanRecord
  /\ \/ urCommandBufferAppendMemBufferFillExp(PatternSize, <<>>)
     \/ urCommandBufferAppendUSMFillExp(PatternSize, <<>>)

\* The step fails with the invalid-value result and records nothing.
FailsInvalidValue ==
  /\ Result'.code = INVALID_VALUE
  /\ ZeComputeCommandList' = ZeComputeCommandList
  /\ ZeCopyCommandList' = ZeCopyCommandList

\* C22: a fill append with a power-of-two pattern size on a non-in-order graph
\* whose device has a copy engine is recorded into the copy list exactly when
\* the pattern size is at most the copy engine's maximum fill-pattern size;
\* otherwise it is recorded into the compute list when the pattern size is at
\* most the compute engine's maximum, and fails with the invalid-value result
\* when it exceeds that maximum too.
C22_FillEngine ==
  [][\A PatternSize \in PatternSizes :
       (/\ ~IsInOrderCmdList /\ useCopyEngine
        /\ IsPowerOfTwo(PatternSize)
        /\ FillAppend(PatternSize))
       => IF PatternSize <= QueueGroup.MainCopy THEN RecordsIntoCopy
          ELSE IF PatternSize <= QueueGroup.Compute THEN RecordsIntoCompute
          ELSE FailsInvalidValue]_vars

\* C22 as the code has it: the copy list is chosen exactly when the pattern
\* fits the copy engine and the fill override (UR_L0_USE_COPY_ENGINE_FOR_FILL,
\* 0 by default) is set; otherwise the fill is recorded into the compute list
\* when the pattern fits the copy engine or the compute engine, and fails with
\* the invalid-value result when it fits neither.
C22_FillEngineAmended ==
  [][\A PatternSize \in PatternSizes :
       (/\ ~IsInOrderCmdList /\ useCopyEngine
        /\ IsPowerOfTwo(PatternSize)
        /\ FillAppend(PatternSize))
       => IF PatternSize <= QueueGroup.MainCopy /\ UseCopyEngineForFill
          THEN RecordsIntoCopy
          ELSE IF \/ PatternSize <= QueueGroup.MainCopy
                  \/ PatternSize <= QueueGroup.Compute
          THEN RecordsIntoCompute
          ELSE FailsInvalidValue]_vars

\* A non-in-order graph on a device with a copy engine holds one fill in its
\* copy list (override set) and a fill append has just failed with the
\* invalid-value result, its sync point registered.
C22_Witness ==
  /\ ~IsInOrderCmdList /\ useCopyEngine /\ UseCopyEngineForFill
  /\ \E i \in RecordedIn(ZeCopyCommandList) : ZeCopyCommandList[i].kind = "fill"
  /\ Result = [op |-> "append", code |-> INVALID_VALUE]
  /\ NextSyncPoint = NumRecorded + 1

\* The graph records a command into the list the command asked for.
FollowsPreference == ~IsInOrderCmdList /\ useCopyEngine

\* A buffer read or write append, plain or rect.
ReadWriteAppend ==
  /\ CanRecord
  /\ \/ urCommandBufferAppendMemBufferWriteExp(<<>>)
     \/ urCommandBufferAppendMemBufferWriteRectExp(<<>>)
     \/ urCommandBufferAppendMemBufferReadExp(<<>>)
     \/ urCommandBufferAppendMemBufferReadRectExp(<<>>)

\* A buffer copy append, plain or rect.
BufferCopyAppend(SrcOnHost, DstOnHost) ==
  /\ CanRecord
  /\ \/ urCommandBufferAppendMemBufferCopyExp(SrcOnHost, DstOnHost, <<>>)
     \/ urCommandBufferAppendMemBufferCopyRectExp(SrcOnHost, DstOnHost, <<>>)

USMCopyAppend(Dst, Src) ==
  CanRecord /\ urCommandBufferAppendUSMMemcpyExp(Dst, Src, <<>>)

\* The DG2 exception of urCommandBufferAppendUSMMemcpyExp.
SharedOnDG2(Dst, Src) ==
  /\ isDG2 /\ (IsSharedPointer(Src) \/ IsSharedPointer(Dst))
  /\ ~UseCopyEngineForD2DCopy

\* C23: buffer read and write appends (and their rect variants) always request
\* the copy engine, and USM and buffer copy appends request the copy engine
\* whenever at least one of source and destination is not a device-resident
\* allocation; only copies between two device-resident allocations may be
\* placed on the compute engine.
C23_CopyEngineRequests ==
  /\ [][FollowsPreference /\ ReadWriteAppend => RecordsIntoCopy]_vars
  /\ [][\A SrcOnHost \in BOOLEAN, DstOnHost \in BOOLEAN :
          (/\ FollowsPreference /\ (SrcOnHost \/ DstOnHost)
           /\ BufferCopyAppend(SrcOnHost, DstOnHost))
          => RecordsIntoCopy]_vars
  /\ [][\A Dst \in PointerKinds, Src \in PointerKinds :
          (/\ FollowsPreference
           /\ (~IsDevicePointer(Src) \/ ~IsDevicePointer(Dst))
           /\ USMCopyAppend(Dst, Src))
          => RecordsIntoCopy]_vars

\* C23 as the code has it: a USM copy on a DG2 device whose source or
\* destination is a shared allocation requests the compute engine (unless the
\* copy engine is enabled for device-to-device copies); every other USM copy
\* with a side that is not device-resident, every buffer copy with a buffer on
\* the host and every buffer read and write request the copy engine.
C23_CopyEngineRequestsAmended ==
  /\ [][FollowsPreference /\ ReadWriteAppend => RecordsIntoCopy]_vars
  /\ [][\A SrcOnHost \in BOOLEAN, DstOnHost \in BOOLEAN :
          (/\ FollowsPreference /\ (SrcOnHost \/ DstOnHost)
           /\ BufferCopyAppend(SrcOnHost, DstOnHost))
          => RecordsIntoCopy]_vars
  /\ [][\A Dst \in PointerKinds, Src \in PointerKinds :
          (/\ FollowsPreference
           /\ (~IsDevicePointer(Src) \/ ~IsDevicePointer(Dst))
           /\ USMCopyAppend(Dst, Src))
          => IF SharedOnDG2(Dst, Src) THEN RecordsIntoCompute
             ELSE RecordsIntoCopy]_vars

\* On a DG2 device without the device-to-device option, a graph that follows
\* the preference holds a copy in its copy list and a copy in its compute list.
C23_Witness ==
  /\ FollowsPreference /\ isDG2 /\ ~UseCopyEngineForD2DCopy
  /\ \E i \in RecordedIn(ZeCopyCommandList) :
       ZeCopyCommandList[i].kind = "memcpy"
  /\ \E i \in RecordedIn(ZeComputeCommandList) :
       ZeComputeCommandList[i].kind = "memcpy"
  /\ Result = [op |-> "append", code |-> SUCCESS]

LiveHandles == Cardinality(DOMAIN CommandHandles)

\* C25: after any sequence of graph retain, graph release, handle-creating
\* kernel-launch appends and command-handle releases that leaves the graph
\* alive, the reference count reported for the graph equals 1 plus the number
\* of retains minus the number of releases plus the number of live command
\* handles; a graph is never destroyed while one of its command handles is
\* alive.
C25_RefCountFormula ==
  /\ Alive => urCommandBufferGetInfoExp
              = 1 + NumRetains - NumReleases + LiveHandles
  /\ Destroyed > 0 => LiveHandles = 0

\* A live graph that was retained once and released once and still has a
\* command handle, after a command handle was released.
C25_Witness ==
  /\ Alive /\ NumRetains = 1 /\ NumReleases = 1 /\ LiveHandles = 1
  /\ Result = [op |-> "releaseCommand", code |-> SUCCESS]

\* ------------------------------------------------ claims on caller wait events
\* Submission n was enqueued with a caller wait event.
HasCallerEvent(n) == ExternalEvent(n) \in Range(WaitList)

\* The auxiliary barrier lists in the device queues.
WaitInstances ==
  {<<pq, i>> \in PhysicalQueues \X (1..(4 * MaxEnqueues)) :
     i <= Len(DeviceQueue[pq]) /\ DeviceQueue[pq][i].list = "wait"}

\* C26: in each submission, no command recorded in the compute or copy list
\* begins before every wait event the caller supplied to that enqueue has
\* completed; when the caller supplies no wait events, the graph's wait-event
\* is signaled on the host during the enqueue call and no auxiliary barrier
\* list is executed.
C26_WaitsForCallerEvents ==
  /\ [](\A b \in Began :
          HasCallerEvent(b[1]) => ExternalEvent(b[1]) \in Signaled)
  /\ [][Enqueues /\ WaitList' = WaitList
        => /\ WaitEvent \in Signaled'
           /\ WaitInstances' = WaitInstances]_vars

\* ------------------------------------------------------ claims on enqueue
\* The lists the step's enqueue handed to physical queue pq, in order.
Submitted(pq) ==
  SubSeq(DeviceQueue'[pq], Len(DeviceQueue[pq]) + 1, Len(DeviceQueue'[pq]))

ListsOf(insts) == [i \in 1..Len(insts) |-> insts[i].list]

\* The graph's own lists among insts, in order (the short-lived wait and
\* signal lists of the enqueue left out).
GraphListsOf(insts) ==
  SelectSeq(ListsOf(insts), LAMBDA l : l \in {"reset", "compute", "copy"})

\* C27: each successful enqueue submits the reset-events list first, then the
\* compute list with that queue's fence attached, then the copy list if and
\* only if the copy list is marked non-empty; the copy list is never submitted
\* while it holds no recorded command, and the fence is attached to the
\* compute list only.
C27_SubmitOrder ==
  [][Enqueues =>
       LET q == ZeActiveFence' IN
       /\ GraphListsOf(Submitted(ComputeQueue(q))) = <<"reset", "compute">>
       /\ GraphListsOf(Submitted(CopyQueue(q)))
            = IF ~MCopyCommandListEmpty THEN <<"copy">> ELSE <<>>
       /\ \A pq \in PhysicalQueues \ {ComputeQueue(q), CopyQueue(q)} :
            Submitted(pq) = <<>>
       /\ \A pq \in PhysicalQueues : \A i \in 1..Len(Submitted(pq)) :
            /\ Submitted(pq)[i].fence
                 = IF Submitted(pq)[i].list = "compute" THEN q ELSE 0
            /\ Submitted(pq)[i].list = "copy"
                 => RecordedIn(Submitted(pq)[i].cmds) # {}]_vars

\* ------------------------------------------------------------- C28
\* A step in which urCommandBufferFinalizeExp succeeded.
FinalizeSucceeds ==
  /\ Result' = [op |-> "finalize", code |-> SUCCESS]
  /\ Len(ZeCommandListResetEvents') > Len(ZeCommandListResetEvents)

\* The commands a step appended to a list.
AddedTo(before, after) == SubSeq(after, Len(before) + 1, Len(after))

\* The number of resets of event ev among cmds.
NumResetsOf(cmds, ev) ==
  Cardinality({i \in 1..Len(cmds) : cmds[i] = EventReset(ev)})

\* The events of the registered sync points.
SyncPointEvents == {SyncPoints[sp] : sp \in DOMAIN SyncPoints}

\* C28: finalizing a non-in-order graph appends to the reset-events list
\* exactly one reset for each event of the tracked-event list, one per
\* registered sync point, and appends to the compute list one barrier that
\* waits on all of those events and signals the graph completion event; no
\* sync-point event is left without a reset.
C28_FinalizeResetsAndBarrier ==
  [][FinalizeSucceeds /\ ~IsInOrderCmdList =>
       LET resets == AddedTo(ZeCommandListResetEvents,
                             ZeCommandListResetEvents')
           added == AddedTo(ZeComputeCommandList, ZeComputeCommandList')
       IN /\ \A ev \in Range(ZeEventsList) : NumResetsOf(resets, ev) = 1
          /\ Cardinality({i \in 1..Len(resets) : resets[i].kind = "reset"})
               = Cardinality(DOMAIN SyncPoints)
          /\ Len(ZeEventsList) = Cardinality(DOMAIN SyncPoints)
          /\ Len(added) = 1
          /\ added[1].kind = "barrier"
          /\ Range(added[1].waits) = Range(ZeEventsList)
          /\ Range(added[1].waits) = SyncPointEvents
          /\ added[1].signal = SignalEvent
          /\ \A ev \in SyncPointEvents' :
               NumResetsOf(ZeCommandListResetEvents', ev) >= 1]_vars

\* A finalized out-of-order graph with two registered sync points.
C28_Witness ==
  /\ ~IsInOrderCmdList
  /\ IsFinalized
  /\ NumFinalizeTails = 1
  /\ Len(ZeEventsList) = 2
  /\ Result = [op |-> "finalize", code |-> SUCCESS]

\* ------------------------------------------------------------- C29
\* What a successful finalize leaves behind.
Sealed ==
  /\ ZeCommandListResetEvents'[Len(ZeCommandListResetEvents')]
       = EventSignal(AllResetEvent)
  /\ {"compute", "reset"} \subseteq ClosedLists'
  /\ (useCopyEngine \/ ~MCopyCommandListEmpty) => "copy" \in ClosedLists'
  /\ IsFinalized'

\* C29: after a successful finalize of any graph the last command of the
\* reset-events list is the signal of the all-reset event, the compute list and
\* the reset-events list are closed, the copy list is closed whenever it was
\* used, and IsFinalized is true; IsFinalized is false in every state before
\* the first successful finalize and never returns to false.
C29_FinalizeSeals ==
  /\ [](NumFinalizeTails = 0 => ~IsFinalized /\ ClosedLists = {})
  /\ [][FinalizeSucceeds => Sealed]_vars
  /\ [][IsFinalized => IsFinalized']_vars

\* A finalized graph whose copy list holds a recorded command.
C29_Witness ==
  /\ IsFinalized
  /\ ~MCopyCommandListEmpty
  /\ RecordedIn(ZeCopyCommandList) # {}
  /\ Result = [op |-> "finalize", code |-> SUCCESS]

\* ------------------------------------------------------------- C30
\* The changes an update descriptor requests: offset, local size, global size
\* and one per rewritten argument.
NumRequestedChanges(CommandDesc) ==
  (IF CommandDesc.pNewGlobalWorkOffset THEN 1 ELSE 0)
  + (IF CommandDesc.pNewLocalWorkSize THEN 1 ELSE 0)
  + (IF CommandDesc.pNewGlobalWorkSize THEN 1 ELSE 0)
  + Cardinality(CommandDesc.newArgs)

\* The descriptors the code builds for an update descriptor: with newWorkDim 0
\* none for the offset and the sizes, and a second one, for the recomputed
\* group size, when a global size comes without a local size.
NumBuiltDescs(CommandDesc) ==
  (IF CommandDesc.newWorkDim = 0 THEN 0
   ELSE (IF CommandDesc.pNewGlobalWorkOffset THEN 1 ELSE 0)
        + (IF CommandDesc.pNewLocalWorkSize THEN 1 ELSE 0)
        + (IF CommandDesc.pNewGlobalWorkSize THEN 1 ELSE 0)
        + (IF CommandDesc.pNewGlobalWorkSize /\ ~CommandDesc.pNewLocalWorkSize
           THEN 1 ELSE 0))
  + Cardinality(CommandDesc.newArgs)

\* The step's update was validated, found the active fence signaled, made one
\* device mutation call in which every descriptor carries the id of the
\* handle, and closed the compute list.
UpdateInOrder ==
  /\ Pending.CommandDesc.newWorkDim <= 3
  /\ UpdatePreconditions
  /\ validateCommandDesc(Pending.Command, Pending.CommandDesc) = SUCCESS
  /\ ZeActiveFence # 0 => ZeActiveFence \in FenceSignaled
  /\ LastUpdate'.fenceWaited = (ZeActiveFence # 0)
  /\ MutationCount' = MutationCount + 1
  /\ \A i \in 1..Len(LastUpdate'.Descs) :
       LastUpdate'.Descs[i].commandId
         = CommandHandles[Pending.Command].CommandId
  /\ ZeComputeCommandList'
       = zexCommandListUpdateMutableCommandsExp(LastUpdate'.Descs)
  /\ "compute" \in ClosedLists'

\* No step changes the command id of a handle.
CommandIdFixed ==
  \A c \in DOMAIN CommandHandles :
     c \in DOMAIN CommandHandles'
       => CommandHandles'[c].CommandId = CommandHandles[c].CommandId

\* C30 as stated: a successful update validates, waits for the active fence,
\* makes exactly one device mutation call whose chain holds one descriptor per
\* requested change, each carrying the handle's command id, and closes the
\* compute list; the command id of a handle never changes.
C30_UpdateOrder ==
  /\ [][UpdateSucceeds =>
          /\ UpdateInOrder
          /\ Len(LastUpdate'.Descs) = NumRequestedChanges(Pending.CommandDesc)
       ]_vars
  /\ [][CommandIdFixed]_vars

\* C30 amended: the chain holds one descriptor per rewritten argument and,
\* when newWorkDim is not 0, one per requested offset, local size and global
\* size plus a recomputed group size when a global size comes without a local
\* size; with newWorkDim 0 it holds none for the offset and the sizes.
C30_UpdateOrderAmended ==
  /\ [][UpdateSucceeds =>
          /\ UpdateInOrder
          /\ Len(LastUpdate'.Descs) = NumBuiltDescs(Pending.CommandDesc)
       ]_vars
  /\ [][CommandIdFixed]_vars

\* A successful update of the second handle that waited on the fence of a
\* submission and handed the device an offset, a group-count, a group-size and
\* an argument descriptor.
C30_Witness ==
  /\ Result = [op |-> "update", code |-> SUCCESS]
  /\ LastUpdate.fenceWaited
  /\ Len(LastUpdate.Descs) = 4
  /\ \A i \in 1..4 : LastUpdate.Descs[i].commandId = 1
  /\ Cardinality(DOMAIN CommandHandles) = 2

\* ------------------------------------------------------------- C31
\* C31: if obtaining the fence for the target queue fails during an enqueue,
\* the enqueue returns that failure at once and submits none of the
\* reset-events, compute or copy lists.
C31_FenceFailureStopsEnqueue ==
  [][Enqueues /\ FenceResult' # SUCCESS =>
       /\ Result'.code = FenceResult'
       /\ UNCHANGED DeviceQueue]_vars

\* ------------------------------------------------------------- C32
\* A submission guarded by fence f is still held by a physical queue.
FenceInFlight(f) ==
  \E pq \in PhysicalQueues : \E i \in 1..Len(DeviceQueue[pq]) :
     DeviceQueue[pq][i].fence = f

\* C32: a fence taken from the fence table is reset only when no submission
\* guarded by it is still in flight: an enqueue to a queue the graph was
\* already submitted to never resets the fence of a submission that has not
\* completed.
C32_NoResetInFlight ==
  [][Enqueues /\ ZeActiveFence' \in ZeFencesMap
       => ~FenceInFlight(ZeActiveFence')]_vars

\* ------------------------------------------------------------- C33
\* The barriers of the auxiliary wait lists the step's enqueue submitted.
WaitBarriers ==
  {Submitted(pq)[i].cmds[1] :
     <<pq, i>> \in {<<pq, i>> \in PhysicalQueues \X (1..4) :
                      /\ i <= Len(Submitted(pq))
                      /\ Submitted(pq)[i].list = "wait"}}

\* The step's enqueue was given a caller wait event.
EnqueuesWithEvent == Enqueues /\ WaitList' # WaitList

\* C33 as stated: the barrier that signals the graph's wait-event for a
\* submission waits only on the wait events supplied to that enqueue call;
\* wait events of earlier enqueues are not carried into a later submission.
C33_OwnWaitEventsOnly ==
  [][EnqueuesWithEvent =>
       /\ Cardinality(WaitBarriers) = 1
       /\ \A b \in WaitBarriers :
            /\ b.signal = WaitEvent
            /\ b.waits = <<ExternalEvent(NumSubmissions')>>]_vars

\* C33 amended: the barrier waits on the wait events supplied to that enqueue
\* call and on those supplied to every earlier enqueue of the same graph.
C33_OwnWaitEventsOnlyAmended ==
  [][EnqueuesWithEvent =>
       /\ Cardinality(WaitBarriers) = 1
       /\ \A b \in WaitBarriers :
            /\ b.signal = WaitEvent
            /\ b.waits = WaitList \o <<ExternalEvent(NumSubmissions')>>
            /\ \A n \in 1..NumSubmissions :
                 HasCallerEvent(n) => ExternalEvent(n) \in Range(b.waits)]_vars

\* The second submission's wait barrier is queued, waiting on the wait events
\* of both enqueues.
C33_Witness ==
  \E pq \in PhysicalQueues : \E i \in 1..Len(DeviceQueue[pq]) :
     /\ DeviceQueue[pq][i].list = "wait"
     /\ DeviceQueue[pq][i].sub = 2
     /\ DeviceQueue[pq][i].cmds[1].waits
          = <<ExternalEvent(1), ExternalEvent(2)>>

\* ----------------------------------------------------------- C34, C35, C36
\* The step is an append that returned an error.
AppendFails == Result'.op = "append" /\ Result'.code # SUCCESS

\* C34: an append that returns an error leaves the recording state as it was:
\* no sync point registered, NextSyncPoint and the tracked events unchanged,
\* no kernel added to the kernel set, no kernel reference taken and no command
\* handle created.
C34_FailedAppendFrame ==
  [][AppendFails =>
       UNCHANGED <<SyncPoints, NextSyncPoint, ZeEventsList, KernelsList,
                   KernelRefCount, CommandHandles>>]_vars

\* The step is a kernel-launch append that returned success.
LaunchSucceeds ==
  /\ Result'.op = "append"
  /\ Result'.code = SUCCESS
  /\ Len(KernelsList') = Len(KernelsList) + 1

\* The step destroys the graph.
Destroys == Destroyed = 0 /\ Destroyed' = 1

\* C35: each kernel-launch append records the kernel in the kernel set and
\* increments the kernel's reference count and use-count once; destroying the
\* graph brings both back to the values they had before the first append, and
\* the use-count never drops below that value.
C35_KernelCountsBalanced ==
  /\ [](SubmissionsCount >= 0)
  /\ [][/\ LaunchSucceeds =>
             /\ KernelsList' = Append(KernelsList, "kernel")
             /\ KernelRefCount' = KernelRefCount + 1
             /\ SubmissionsCount' = SubmissionsCount + 1
        /\ Destroys => KernelRefCount' = 1 /\ SubmissionsCount' = 0]_vars

\* The step is an append rejected for its global offset: under SpecArgs, where
\* every append is a kernel launch, the only one that returns
\* UR_RESULT_ERROR_INVALID_VALUE without recording the kernel.
OffsetRejected ==
  /\ Result'.op = "append"
  /\ Result'.code = INVALID_VALUE
  /\ KernelsList' = KernelsList

\* The pending arguments are applied once each and the list is left empty.
FlushedOnce ==
  /\ PendingArguments' = <<>>
  /\ \A i \in ArgIndices :
       ArgsApplied'[i] = ArgsApplied[i]
         + Cardinality({j \in 1..Len(PendingArguments) :
                          PendingArguments[j] = i})

IsNullPointerValue(Desc) ==
  /\ Desc.argSize = PointerSize
  /\ \A i \in 1..Desc.argSize : Desc.pNewValueArg[i] = 0

\* C37: a by-value argument rewrite is passed as a null argument value exactly
\* when its size equals the pointer size and the bytes it points to are all
\* zero; every other by-value rewrite, a zero value of any other size
\* included, is passed with its own value pointer and size.
C37_NullValueArg ==
  ZeMutableArgDesc # <<>> =>
    LET Desc == NewValueArgDesc[1]
        ZeDesc == ZeMutableArgDesc[1]
    IN /\ ZeDesc.argSize = Desc.argSize
       /\ Desc.pNewValueArg # nullptr =>
            /\ ZeDesc.pArgValue = nullptr <=> IsNullPointerValue(Desc)
            /\ ~IsNullPointerValue(Desc) =>
                 ZeDesc.pArgValue = Desc.pNewValueArg
       /\ Desc.pNewValueArg = nullptr => ZeDesc.pArgValue = nullptr

\* A zero value of half the pointer size was translated and kept its pointer.
C37_Witness ==
  /\ ZeMutableArgDesc # <<>>
  /\ NewValueArgDesc[1].argSize = 4
  /\ NewValueArgDesc[1].pNewValueArg = <<0, 0, 0, 0>>
  /\ ZeMutableArgDesc[1].pArgValue = NewValueArgDesc[1].pNewValueArg

\* --------------------------------------------------------------- C38, C39
\* The step is a provider_normal::allocate call.
Allocates == LastEvent' # LastEvent /\ LastEvent'[1].op = "allocate"

\* The step creates a provider pool.
CreatesPool == Len(pools') > Len(pools)

\* The pool of the provider with this id, before the step.
PoolOf(id) == CHOOSE pool \in Range(pools) : pool.id = id

\* The pool the step's event comes from is an existing pool that had the most
\* free events.
ServedFromMostFree ==
  /\ ~CreatesPool
  /\ \A pool \in Range(pools) :
       nfree(pool) <= nfree(PoolOf(LastEvent'[1].event[1]))

\* The step hands out an event that was free and is lent afterwards.
ReturnsEvent ==
  /\ Lent[LastEvent'[1].event] = 0
  /\ Lent'[LastEvent'[1].event] = 1

\* C38: provider_normal::allocate always returns an event and creates a pool
\* only when every existing pool has no free event; while some pool has a free
\* event the allocation is served from the pool with the most free events.
C38_MostFreePool ==
  [][Allocates =>
       /\ ReturnsEvent
       /\ CreatesPool => \A pool \in Range(pools) : nfree(pool) = 0
       /\ (\E pool \in Range(pools) : nfree(pool) > 0) =>
            ServedFromMostFree]_vars

\* C38 amended: while some pool has a free event the allocation is served from
\* the pool at the back of the provider's list when that has a free event, and
\* otherwise from the pool with the most free events; never from a new pool.
C38_MostFreePoolAmended ==
  [][Allocates =>
       /\ ReturnsEvent
       /\ CreatesPool => \A pool \in Range(pools) : nfree(pool) = 0
       /\ (\E pool \in Range(pools) : nfree(pool) > 0) =>
            /\ ~CreatesPool
            /\ IF nfree(pools[Len(pools)]) > 0
               THEN LastEvent'[1].event[1] = pools[Len(pools)].id
               ELSE ServedFromMostFree]_vars

\* Two pools were created, the first has a free event again and the second
\* has none: the sort has moved the first pool to the back and an event of it
\* was handed out from there.
C38_Witness ==
  /\ Len(pools) = 2
  /\ pools[2].id = 1
  /\ LastEvent[1].op = "allocate"
  /\ LastEvent[1].event[1] = 1

\* The events of pool id that are lent out, each counted as often as it is
\* lent.
RECURSIVE NumLent(_, _)
NumLent(id, n) ==
  IF n = 0 THEN 0 ELSE Lent[<<id, n - 1>>] + NumLent(id, n - 1)

\* Free plus lent events of every pool are the events it was created with.
EventsConserved ==
  \A pool \in Range(pools) :
     nfree(pool) + NumLent(pool.id, EVENTS_BURST) = EVENTS_BURST

\* No event is lent twice, lent while it is free, or twice in a freelist.
LentOnce ==
  /\ \A event \in EventHandles : Lent[event] <= 1
  /\ \A pool \in Range(pools) :
       /\ \A i \in 1..nfree(pool) : Lent[pool.freelist[i]] = 0
       /\ \A i, j \in 1..nfree(pool) :
            i # j => pool.freelist[i] # pool.freelist[j]

\* The step allocates from the pool into which the step before freed an event.
AllocatesAfterFree ==
  /\ Allocates
  /\ LastEvent # <<>>
  /\ LastEvent[1].op = "free"
  /\ LastEvent'[1].event[1] = LastEvent[1].event[1]

\* C39: within one provider pool the free events plus the events lent out are
\* the EVENTS_BURST events of the pool, no event is lent to two borrowers at a
\* time, and an allocation that directly follows a free returns the event that
\* was just freed.
C39_PoolRecycles ==
  /\ [](EventsConserved /\ LentOnce)
  /\ [][AllocatesAfterFree => LastEvent'[1].event = LastEvent[1].event]_vars

\* Both events of a pool were lent and freed, the one with index 1 first, and
\* the event with index 0, freed last, was handed out again.
C39_Witness ==
  \E pool \in Range(pools) :
     /\ pool.freelist = <<<<pool.id, 1>>>>
     /\ Lent[<<pool.id, 0>>] = 1
     /\ LastEvent = <<[op |-> "allocate", event |-> <<pool.id, 0>>]>>

\* ------------------------------------------------------------------- C40
\* No two calls were given the same pool and index.
DescriptorsDistinct ==
  \A a, b \in Returned :
     a.pool = b.pool /\ a.index = b.index => a = b

\* Every index handed out lies inside the capacity of a pool of the cache.
IndicesInCapacity ==
  \A a \in Returned :
     /\ a.pool \in 1..Len(available)
     /\ a.index \in 0..(PoolCapacity - 1)

\* No pool is on the full list twice.
FullOnce == \A i, j \in 1..Len(full) : i # j => full[i] # full[j]

\* An allocate_index on the pool has found no index.
RanOut(pool) == pool \in 1..Len(available) /\ available[pool] <= 0

\* The pools the calls of the specification can create.
CachePools == 1..(NumThreads * MaxCacheCalls + 1)

\* C40: under any interleaving of the threads that call
\* allocate_index_in_pool no two calls return the same pool and index, every
\* index lies inside the capacity of its pool, a pool that has run out of
\* indices is moved to the full list exactly once, and every call returns.
C40_CacheAllocation ==
  /\ [](DescriptorsDistinct /\ IndicesInCapacity /\ FullOnce)
  /\ \A pool \in CachePools : RanOut(pool) ~> pool \in Range(full)
  /\ \A t \in Threads : call[t].at # "idle" ~> call[t].at = "idle"

====
